---- MODULE Spec2Model ----
(***************************************************************************)
(* Menu compliance analysis engine (backend/services/menu_analysis_service) *)
(*                                                                         *)
(* Text is modelled word by word: a string is the sequence of its          *)
(* whitespace-separated words, one space between neighbours.  The empty    *)
(* word "" stands for the hole str.replace(w, "") leaves behind, so that   *)
(* <<"a", "", "b">> is "a  b" (two spaces).  Hebrew words are written in   *)
(* transliteration: maximum and minimum are the two marker words, paam =   *)
(* once, peamim = times, bashavua = per week, bachodesh = per month,       *)
(* sugey = varieties of, manot = portions of, bayom = per day,             *)
(* yomi/yomit/yomiyim/yomiyot = daily, salat/manat/mana = salad/portion.   *)
(* Substring tests are tests on contiguous runs of words.                  *)
(***************************************************************************)
EXTENDS Integers, Sequences, FiniteSets, TLC

\* ------------------------------------------------------------------------
\* Generic helpers on sequences
\* ------------------------------------------------------------------------

RECURSIVE SeqSum(_)
SeqSum(s) == IF s = <<>> THEN 0 ELSE Head(s) + SeqSum(Tail(s))

SeqMax(s) == IF s = <<>> THEN 0 ELSE CHOOSE m \in {s[i] : i \in DOMAIN s} :
                                        \A i \in DOMAIN s : s[i] <= m

RECURSIVE FlattenSeq(_)
FlattenSeq(ss) == IF ss = <<>> THEN <<>> ELSE Head(ss) \o FlattenSeq(Tail(ss))

Range(s) == {s[i] : i \in DOMAIN s}

\* Number of positions of s holding x (collections.Counter(s)[x])
CountOf(x, s) == Cardinality({i \in DOMAIN s : s[i] = x})

\* ------------------------------------------------------------------------
\* Strings
\* ------------------------------------------------------------------------

\* str.lower() on one word: the vocabulary has one word with capitals
LowerWord(w) == IF w = "Hummus" THEN "hummus" ELSE w

\* str.lower()
Lower(s) == [i \in DOMAIN s |-> LowerWord(s[i])]

\* str.strip(): leading and trailing whitespace goes, i.e. the empty words
\* at both ends
RECURSIVE StripLeft(_)
StripLeft(s) == IF s # <<>> /\ Head(s) = "" THEN StripLeft(Tail(s)) ELSE s

RECURSIVE StripRight(_)
StripRight(s) == IF s # <<>> /\ s[Len(s)] = ""
                 THEN StripRight(SubSeq(s, 1, Len(s) - 1)) ELSE s

Strip(s) == StripRight(StripLeft(s))

\* Python's `kw in s` on strings
Contains(kw, s) ==
    \/ kw = <<>>
    \/ \E i \in 1..(Len(s) - Len(kw) + 1) : SubSeq(s, i, i + Len(kw) - 1) = kw

\* str.replace(w, ""): every occurrence of the word leaves an empty word
ReplaceWord(s, w) == [i \in DOMAIN s |-> IF s[i] = w THEN "" ELSE s[i]]

\* \d+ : the words that are numbers, and int() of them
NumWords == {"0", "1", "2", "3", "11"}

NumVal(w) == CASE w = "0" -> 0 [] w = "1" -> 1 [] w = "2" -> 2
               [] w = "3" -> 3 [] w = "11" -> 11 [] OTHER -> 0

\* words that begin with the letters pe-ayin-mem (non-final mem)
StartsPeam(w) == w = "peamim"

\* words that begin with the letter bet
StartsBet(w) == w \in {"bashavua", "bachodesh", "bayom"}

\* index of the first non-empty word after position j, 0 if none
NextWord(s, j) ==
    IF \E k \in (j + 1)..Len(s) : s[k] # ""
    THEN CHOOSE k \in (j + 1)..Len(s) :
            s[k] # "" /\ \A m \in (j + 1)..(k - 1) : s[m] = ""
    ELSE 0

\* ------------------------------------------------------------------------
\* Hebrew rule name parsing
\* ------------------------------------------------------------------------

\* positions j where r'^(.+?)\s+(\d+(?:\.\d+)?)\s+pe'am' can place its number
FreqPositions(clean) ==
    {j \in 2..Len(clean) :
        /\ clean[j] \in NumWords
        /\ NextWord(clean, j) # 0
        /\ StartsPeam(clean[NextWord(clean, j)])}

\* positions j where r'^(.+?)\s+pa'am\s+b' can place the word pa'am
OncePositions(clean) ==
    {j \in 2..Len(clean) :
        /\ clean[j] = "paam"
        /\ NextWord(clean, j) # 0
        /\ StartsBet(clean[NextWord(clean, j)])}

MinOf(S) == CHOOSE m \in S : \A x \in S : m <= x

\* an interpreter that finds the item and the frequency but never the
\* maximum marker's direction
ExtractItemAndFreqNoDirection(name) ==
    LET clean == Strip(ReplaceWord(name, "maximum"))
    IN  IF FreqPositions(clean) # {}
        THEN [item |-> Strip(SubSeq(clean, 1, MinOf(FreqPositions(clean)) - 1)),
              freq |-> NumVal(clean[MinOf(FreqPositions(clean))]), is_max |-> FALSE]
        ELSE IF OncePositions(clean) # {}
        THEN [item |-> Strip(SubSeq(clean, 1, MinOf(OncePositions(clean)) - 1)),
              freq |-> 1, is_max |-> FALSE]
        ELSE [item |-> clean, freq |-> 1, is_max |-> FALSE]

_extract_item_and_freq(name) ==
    LET is_max == \E i \in DOMAIN name : name[i] = "maximum"
        clean  == Strip(ReplaceWord(name, "maximum"))
    IN  IF FreqPositions(clean) # {}
        THEN LET j == MinOf(FreqPositions(clean))
             IN  [item |-> Strip(SubSeq(clean, 1, j - 1)),
                  freq |-> NumVal(clean[j]), is_max |-> is_max]
        ELSE IF OncePositions(clean) # {}
        THEN LET j == MinOf(OncePositions(clean))
             IN  [item |-> Strip(SubSeq(clean, 1, j - 1)),
                  freq |-> 1, is_max |-> is_max]
        ELSE [item |-> clean, freq |-> 1, is_max |-> is_max]

\* (.+?)(?:\s+bayom)?$ : the rest of the name without a closing "per day"
DropPerDay(rest) ==
    IF Len(rest) >= 2 /\ rest[Len(rest)] = "bayom"
    THEN SubSeq(rest, 1, Len(rest) - 1) ELSE rest

_extract_daily_count(name) ==
    IF /\ Len(name) >= 4 /\ name[1] = "minimum" /\ name[2] \in NumWords
       /\ name[3] = "sugey"
    THEN [count |-> NumVal(name[2]),
          keyword |-> Strip(DropPerDay(SubSeq(name, 4, Len(name))))]
    ELSE IF /\ Len(name) >= 4 /\ name[1] = "maximum" /\ name[2] \in NumWords
            /\ name[3] = "manot"
    THEN [count |-> NumVal(name[2]),
          keyword |-> Strip(DropPerDay(SubSeq(name, 4, Len(name))))]
    ELSE IF Len(name) >= 3 /\ name[1] = "minimum" /\ name[2] \in NumWords
    THEN [count |-> NumVal(name[2]), keyword |-> Strip(SubSeq(name, 3, Len(name)))]
    ELSE [count |-> 1, keyword |-> name]

DailySuffixes == {"yomi", "yomit", "yomiyim", "yomiyot"}

PrefixNouns == {"salat", "manat", "mana"}

\* the one compound word of the vocabulary, "tsach/yerakot", and what
\* split("/")[0] keeps of it
HasSlash(w) == w = "tsach/yerakot"

SlashHead(w) == IF w = "tsach/yerakot" THEN "tsach" ELSE w

_extract_item_present_keyword(name) ==
    LET c1 == IF Len(name) >= 2 /\ name[Len(name)] \in DailySuffixes
              THEN Strip(SubSeq(name, 1, Len(name) - 1)) ELSE Strip(name)
        c2 == IF Len(c1) >= 2 /\ c1[1] \in PrefixNouns
              THEN SubSeq(c1, 2, Len(c1)) ELSE c1
        slashes == {i \in DOMAIN c2 : HasSlash(c2[i])}
    IN  IF slashes # {}
        THEN LET i == MinOf(slashes)
             IN  Strip(Append(SubSeq(c2, 1, i - 1), SlashHead(c2[i])))
        ELSE c2

\* ------------------------------------------------------------------------
\* Helpers
\* ------------------------------------------------------------------------

\* a comparator that calls a met target "above"
DeriveComparisonAtLeast(actual, expected) ==
    IF actual >= expected THEN "above"
    ELSE IF actual < expected THEN "under"
    ELSE "even"

_derive_comparison(actual, expected) ==
    IF actual > expected THEN "above"
    ELSE IF actual < expected THEN "under"
    ELSE "even"

\* ------------------------------------------------------------------------
\* Calendar (datetime.date of the standard library, proleptic Gregorian)
\* ------------------------------------------------------------------------

IsLeap(y) == y % 4 = 0 /\ (y % 100 # 0 \/ y % 400 = 0)

DaysInMonth(y, m) ==
    IF m = 2 THEN (IF IsLeap(y) THEN 29 ELSE 28)
    ELSE IF m \in {4, 6, 9, 11} THEN 30 ELSE 31

DaysBeforeYear(y) ==
    (y - 1) * 365 + ((y - 1) \div 4) - ((y - 1) \div 100) + ((y - 1) \div 400)

RECURSIVE DaysBeforeMonth(_, _)
DaysBeforeMonth(y, m) ==
    IF m <= 1 THEN 0 ELSE DaysBeforeMonth(y, m - 1) + DaysInMonth(y, m - 1)

\* date(y, m, d).toordinal(); a date is kept as this ordinal, and 0 is a
\* date string date.fromisoformat() rejects
Ordinal(y, m, d) == DaysBeforeYear(y) + DaysBeforeMonth(y, m) + d

NoDate == 0

\* date.weekday(): Monday is 0
Weekday(ord) == (ord + 6) % 7

\* date(year, month, day) raises ValueError outside these ranges
ValidDate(y, m, d) ==
    /\ y >= 1 /\ y <= 9999
    /\ m >= 1 /\ m <= 12
    /\ d >= 1 /\ d <= DaysInMonth(y, m)

\* date.year of an ordinal
YearOf(ord) ==
    CHOOSE y \in (ord \div 366)..((ord \div 365) + 1) :
        Ordinal(y, 1, 1) <= ord /\ ord < Ordinal(y + 1, 1, 1)

IsoWeek1Monday(y) ==
    LET firstday == Ordinal(y, 1, 1)
        firstweekday == Weekday(firstday)
        week1monday == firstday - firstweekday
    IN  IF firstweekday > 3 THEN week1monday + 7 ELSE week1monday

\* date.isocalendar()[1]
IsoWeek(ord) ==
    LET y == YearOf(ord)
        diff == ord - IsoWeek1Monday(y)
    IN  IF diff < 0
        THEN ((ord - IsoWeek1Monday(y - 1)) \div 7) + 1
        ELSE IF diff \div 7 >= 52 /\ ord >= IsoWeek1Monday(y + 1)
        THEN 1
        ELSE (diff \div 7) + 1

\* ------------------------------------------------------------------------
\* Numbers
\* ------------------------------------------------------------------------

\* round(p / q) for q > 0: to the nearest integer, ties to the even one
RoundDiv(p, q) ==
    LET f == p \div q
        r == p % q
    IN  IF 2 * r < q THEN f
        ELSE IF 2 * r > q THEN f + 1
        ELSE IF f % 2 = 0 THEN f ELSE f + 1

\* The k for which the double nearest to (2k+1)/20 lies above it, so that
\* round(x, 1) of that double goes up to (k+1)/10; for the others it goes
\* down to k/10.  (The halves whose double is exact, k % 5 = 2, go to the
\* even tenth.)
HalfTenthUp == {
    0, 4, 5, 6, 7, 10, 13, 15, 17, 18, 23, 24, 27, 28, 29, 33, 34, 37,
    38, 39, 41, 44, 46, 47, 49, 51, 54, 56, 57, 59, 61, 64, 66, 67,
    69, 71, 74, 76, 77, 79, 80, 81, 85, 86, 87, 90, 91, 95, 96, 97,
    100, 101, 105, 106, 107, 110, 111, 115, 116, 117, 120, 121, 125,
    126, 127}

\* round(s / d, 1), in tenths
RoundTenths(s, d) ==
    LET f == (10 * s) \div d
        r == (10 * s) % d
    IN  IF 2 * r < d THEN f
        ELSE IF 2 * r > d THEN f + 1
        ELSE IF f \in HalfTenthUp THEN f + 1 ELSE f

\* sum of f[x] over the elements x of a finite set S
RECURSIVE SetSum(_, _)
SetSum(S, f) ==
    IF S = {} THEN 0
    ELSE LET x == CHOOSE x \in S : TRUE IN f[x] + SetSum(S \ {x}, f)

\* s[:n]
Take(s, n) == SubSeq(s, 1, IF Len(s) < n THEN Len(s) ELSE n)

\* ------------------------------------------------------------------------
\* Rules and menu days
\* ------------------------------------------------------------------------

\* params.get(key) of a key the parameter bag does not hold
None == -1

\* Python truth of an optional number: neither None nor 0
Truthy(n) == n # None /\ n # 0

\* rule.parameters or {}
NoParams == [item |-> <<>>, min_per_week |-> None, max_per_week |-> None,
             min_per_month |-> None, max_per_month |-> None,
             required_category |-> <<>>, required_item |-> <<>>]

\* A menu day is [date, day_of_week, items]; items is the category -> value
\* mapping in insertion order, each entry [cat, list, dishes]: a list value
\* holds the dishes, a value that is a plain string is list = FALSE with the
\* string as the only element of dishes.

\* the (category, item) pairs of one day, list values only
DayItemPairs(day) ==
    FlattenSeq([i \in DOMAIN day.items |->
        IF day.items[i].list
        THEN [k \in DOMAIN day.items[i].dishes |->
                 <<day.items[i].cat, day.items[i].dishes[k]>>]
        ELSE <<>>])

\* one element of daily_categories
DailyCategory(day) ==
    [date |-> day.date,
     day_of_week |-> day.day_of_week,
     categories |-> [i \in DOMAIN day.items |-> day.items[i].cat],
     items |-> DayItemPairs(day)]

DailyCategories(days_data) == [i \in DOMAIN days_data |-> DailyCategory(days_data[i])]

\* the names of the items of one daily_categories element, lowercased
ItemsLower(dc) == [k \in DOMAIN dc.items |-> Lower(dc.items[k][2])]

\* all_items_flat: Counter(all_items_flat) is kept as this bag of names
AllItemsFlat(days_data) ==
    FlattenSeq([i \in DOMAIN days_data |-> ItemsLower(DailyCategory(days_data[i]))])

_count_item_occurrences(item_keyword, item_counter) ==
    LET keyword == Lower(item_keyword)
        keys == {k \in Range(item_counter) : Contains(keyword, k)}
    IN  SetSum(keys, [k \in keys |-> CountOf(k, item_counter)])

\* any(keyword in str(item).lower() for _, item in dc["items"])
DayHasItem(keyword, dc) ==
    \E k \in DOMAIN dc.items : Contains(keyword, Lower(dc.items[k][2]))

\* a presence count that counts the matching items, not the days
CountItemListings(item_keyword, daily_categories) ==
    SeqSum([i \in DOMAIN daily_categories |->
        Cardinality({k \in DOMAIN daily_categories[i].items :
            Contains(Lower(item_keyword), Lower(daily_categories[i].items[k][2]))})])

_count_daily_item_presence(item_keyword, daily_categories) ==
    Cardinality({i \in DOMAIN daily_categories :
                    DayHasItem(Lower(item_keyword), daily_categories[i])})

DatesOf(dcs) == [i \in DOMAIN dcs |-> dcs[i].date]

_find_item_days(item_keyword, daily_categories) ==
    DatesOf(SelectSeq(daily_categories,
                      LAMBDA dc : DayHasItem(Lower(item_keyword), dc)))

_find_missing_days(item_keyword, daily_categories) ==
    DatesOf(SelectSeq(daily_categories,
                      LAMBDA dc : ~DayHasItem(Lower(item_keyword), dc)))

\* every occurrence of a repeated name counted
RepeatCountOccurrences(items) ==
    SetSum(Range(items),
           [k \in Range(items) |->
               IF CountOf(k, items) > 1 THEN CountOf(k, items) ELSE 0])

\* sum(v - 1 for v in Counter(items).values() if v > 1)
RepeatCount(items) ==
    SetSum(Range(items),
           [k \in Range(items) |->
               IF CountOf(k, items) > 1 THEN CountOf(k, items) - 1 ELSE 0])


\* ------------------------------------------------------------------------
\* Rule evaluation
\* ------------------------------------------------------------------------

\* `base` of _check_single_rule joined with the branch's own keys.  The
\* finding text is kept as its template, without the interpolated values.
Finding(r, passed, finding_text, evidence) ==
    [rule_name |-> r.name,
     rule_category |-> r.category,
     severity |-> IF r.priority <= 1 THEN "critical" ELSE "warning",
     rule_id |-> r.id,
     passed |-> passed,
     finding_text |-> finding_text,
     evidence |-> evidence]

\* total_days == 0
NoDaysResult(r) ==
    Finding(r, FALSE, "No menu days found to check against this rule.",
            [days_checked |-> 0, expected_count |-> 0, actual_count |-> 0,
             comparison |-> "even"])

\* the weeks of the month without the floor of one week
WeeksInMonthNoFloor(total_days) == total_days

\* weeks_in_month = max(total_days / 5, 1), in fifths of a week
WeeksInMonth5(total_days) == IF total_days > 5 THEN total_days ELSE 5

\* item_frequency_weekly
CheckItemFrequencyWeekly(r, daily_categories, item_counter, total_days) ==
    LET params == r.parameters
        x == _extract_item_and_freq(r.name)
        item_keyword == IF params.item # <<>> THEN params.item ELSE x.item
        freq == IF Truthy(params.max_per_week) THEN params.max_per_week
                ELSE IF Truthy(params.min_per_week) THEN params.min_per_week
                ELSE x.freq
        is_max == IF Truthy(params.max_per_week) THEN TRUE
                  ELSE IF Truthy(params.min_per_week) THEN FALSE
                  ELSE x.is_max
        actual == _count_item_occurrences(item_keyword, item_counter)
        expected == RoundDiv(freq * WeeksInMonth5(total_days), 5)
        passed == IF is_max THEN actual <= expected ELSE actual >= expected
    IN  Finding(r, passed, "'{item}': Expected {dir}{expected}, Actual {actual}",
            [item_searched |-> item_keyword,
             expected_count |-> expected,
             actual_count |-> actual,
             comparison |-> _derive_comparison(actual, expected),
             weekly_freq |-> freq,
             is_max_rule |-> is_max,
             found_on_days |-> _find_item_days(item_keyword, daily_categories)])

\* item_frequency_monthly
CheckItemFrequencyMonthly(r, daily_categories, item_counter) ==
    LET params == r.parameters
        x == _extract_item_and_freq(r.name)
        item_keyword == IF params.item # <<>> THEN params.item ELSE x.item
        freq == IF Truthy(params.max_per_month) THEN params.max_per_month
                ELSE IF Truthy(params.min_per_month) THEN params.min_per_month
                ELSE x.freq
        is_max == IF Truthy(params.max_per_month) THEN TRUE
                  ELSE IF Truthy(params.min_per_month) THEN FALSE
                  ELSE x.is_max
        actual == _count_item_occurrences(item_keyword, item_counter)
        expected == freq
        passed == IF is_max THEN actual <= expected ELSE actual >= expected
    IN  Finding(r, passed, "'{item}': Expected {dir}{expected}/month, Actual {actual}",
            [item_searched |-> item_keyword,
             expected_count |-> expected,
             actual_count |-> actual,
             comparison |-> _derive_comparison(actual, expected),
             monthly_freq |-> freq,
             is_max_rule |-> is_max,
             found_on_days |-> _find_item_days(item_keyword, daily_categories)])

\* count_min, name starting with the minimum marker: one day's count
MinVarietyDayCount(cat_keyword, dc) ==
    Cardinality({k \in DOMAIN dc.items :
        \/ Contains(Lower(cat_keyword), Lower(dc.items[k][2]))
        \/ \E c \in Range(dc.categories) : Contains(Lower(cat_keyword), Lower(c))})

\* count_min, "minimum N varieties of CATEGORY per day"; avg_daily is kept
\* in tenths
CheckCountMinVariety(r, daily_categories) ==
    LET x == _extract_daily_count(r.name)
        min_count == x.count
        cat_keyword == x.keyword
        daily_counts == [i \in DOMAIN daily_categories |->
                            MinVarietyDayCount(cat_keyword, daily_categories[i])]
        n == IF Len(daily_counts) > 1 THEN Len(daily_counts) ELSE 1
        avg_daily == RoundTenths(SeqSum(daily_counts), n)
        expected == min_count
        actual == RoundDiv(avg_daily, 10)
        passed == avg_daily >= 10 * min_count
        met == SelectSeq(daily_categories,
                   LAMBDA dc : MinVarietyDayCount(cat_keyword, dc) >= min_count)
        unmet == SelectSeq(daily_categories,
                   LAMBDA dc : MinVarietyDayCount(cat_keyword, dc) < min_count)
    IN  Finding(r, passed, "'{cat}': Min {min}/day, Avg {avg}/day",
            [category_keyword |-> cat_keyword,
             expected_count |-> expected,
             actual_count |-> actual,
             comparison |-> _derive_comparison(actual, expected),
             avg_daily |-> avg_daily,
             min_required |-> min_count,
             found_on_days |-> DatesOf(met),
             missing_on_days |-> Take(DatesOf(unmet), 10)])

\* item_present, and count_min without the minimum marker
CheckItemPresent(r, daily_categories, total_days) ==
    LET item_keyword == IF r.parameters.item # <<>> THEN r.parameters.item
                        ELSE _extract_item_present_keyword(r.name)
        actual == _count_daily_item_presence(item_keyword, daily_categories)
        expected == total_days
        passed == actual >= expected
    IN  Finding(r, passed, "'{item}': Present {actual}/{total_days} days",
            [item_searched |-> item_keyword,
             expected_count |-> expected,
             actual_count |-> actual,
             comparison |-> _derive_comparison(actual, expected),
             found_on_days |-> _find_item_days(item_keyword, daily_categories),
             missing_on_days |->
                 Take(_find_missing_days(item_keyword, daily_categories), 10)])

\* count_max: one day's count
MaxDayCount(item_keyword, dc) ==
    Cardinality({k \in DOMAIN dc.items :
        Contains(Lower(item_keyword), Lower(dc.items[k][2]))})

\* count_max, "maximum N portions of ITEM per day"
CheckCountMax(r, daily_categories) ==
    LET x == _extract_daily_count(r.name)
        max_count == x.count
        item_keyword == IF r.parameters.item # <<>> THEN r.parameters.item
                        ELSE x.keyword
        daily_counts == [i \in DOMAIN daily_categories |->
                            MaxDayCount(item_keyword, daily_categories[i])]
        max_found == SeqMax(daily_counts)
        n == IF Len(daily_counts) > 1 THEN Len(daily_counts) ELSE 1
        avg_daily == RoundTenths(SeqSum(daily_counts), n)
        expected == max_count
        actual == RoundDiv(avg_daily, 10)
        passed == max_found <= max_count
        exceeded == SelectSeq(daily_categories,
                       LAMBDA dc : MaxDayCount(item_keyword, dc) > max_count)
    IN  Finding(r, passed, "'{item}': Max {max}/day, Peak {peak}/day, Avg {avg}/day",
            [item_searched |-> item_keyword,
             expected_count |-> expected,
             actual_count |-> actual,
             comparison |-> _derive_comparison(actual, expected),
             max_daily_found |-> max_found,
             avg_daily |-> avg_daily,
             found_on_days |-> DatesOf(exceeded)])

\* no_repeat_weekly: the items of the days of one ISO week; a day whose
\* date does not parse is skipped
WeekItems(daily_categories, week) ==
    FlattenSeq([i \in DOMAIN daily_categories |->
        IF daily_categories[i].date # NoDate
           /\ IsoWeek(daily_categories[i].date) = week
        THEN ItemsLower(daily_categories[i]) ELSE <<>>])

CheckNoRepeatWeekly(r, daily_categories) ==
    LET weeks == {IsoWeek(daily_categories[i].date) :
                    i \in {j \in DOMAIN daily_categories :
                              daily_categories[j].date # NoDate}}
        repeats == SetSum(weeks,
                     [w \in weeks |-> RepeatCount(WeekItems(daily_categories, w))])
    IN  Finding(r, repeats = 0,
            IF repeats > 0 THEN "Weekly repeats found: {repeats}"
                           ELSE "No weekly repeats",
            [expected_count |-> 0, actual_count |-> repeats,
             comparison |-> _derive_comparison(repeats, 0)])

\* no_repeat_daily
CheckNoRepeatDaily(r, daily_categories) ==
    LET repeats == SeqSum([i \in DOMAIN daily_categories |->
                             RepeatCount(ItemsLower(daily_categories[i]))])
    IN  Finding(r, repeats = 0,
            IF repeats > 0 THEN "Daily repeats found: {repeats}"
                           ELSE "No daily repeats",
            [expected_count |-> 0, actual_count |-> repeats,
             comparison |-> _derive_comparison(repeats, 0)])

\* no_consecutive that counts every listing of a dish of the day before
CheckNoConsecutiveEveryItem(r, daily_categories) ==
    LET ItemSet(i) == IF i = 0 THEN {} ELSE Range(ItemsLower(daily_categories[i]))
        consecutive_repeats ==
            SeqSum([i \in DOMAIN daily_categories |->
                       Len(SelectSeq(ItemsLower(daily_categories[i]),
                                     LAMBDA n : n \in ItemSet(i - 1)))])
    IN  Finding(r, consecutive_repeats = 0,
            IF consecutive_repeats > 0 THEN "Consecutive-day repeats: {n}"
                                       ELSE "No consecutive repeats",
            [expected_count |-> 0, actual_count |-> consecutive_repeats,
             comparison |-> _derive_comparison(consecutive_repeats, 0)])

\* no_consecutive: prev_items starts empty
CheckNoConsecutive(r, daily_categories) ==
    LET ItemSet(i) == IF i = 0 THEN {} ELSE Range(ItemsLower(daily_categories[i]))
        consecutive_repeats ==
            SeqSum([i \in DOMAIN daily_categories |->
                       Cardinality(ItemSet(i - 1) \cap ItemSet(i))])
    IN  Finding(r, consecutive_repeats = 0,
            IF consecutive_repeats > 0 THEN "Consecutive-day repeats: {n}"
                                       ELSE "No consecutive repeats",
            [expected_count |-> 0, actual_count |-> consecutive_repeats,
             comparison |-> _derive_comparison(consecutive_repeats, 0)])

\* legacy frequency; weekly_avg = actual / weeks_in_month is compared
\* after multiplying both sides by the weeks
CheckFrequency(r, item_counter, total_days) ==
    LET params == r.parameters
        max_per_week == params.max_per_week
        min_per_week == params.min_per_week
        target_item == Lower(params.item)
        weeks5 == WeeksInMonth5(total_days)
        actual == _count_item_occurrences(target_item, item_counter)
        expected == IF min_per_week # None THEN RoundDiv(min_per_week * weeks5, 5)
                    ELSE IF max_per_week # None THEN RoundDiv(max_per_week * weeks5, 5)
                    ELSE 0
        ev == [expected_count |-> expected, actual_count |-> actual,
               comparison |-> _derive_comparison(actual, expected)]
    IN  IF target_item # <<>>
        THEN IF Truthy(max_per_week) /\ actual * 5 > max_per_week * weeks5
             THEN Finding(r, FALSE, "'{item}': ~{avg}/week (max {max}). Expected <={expected}, Actual {actual}", ev)
             ELSE IF Truthy(min_per_week) /\ actual * 5 < min_per_week * weeks5
             THEN Finding(r, FALSE, "'{item}': ~{avg}/week (min {min}). Expected >={expected}, Actual {actual}", ev)
             ELSE Finding(r, TRUE, "Expected: {expected}, Actual: {actual}", ev)
        ELSE Finding(r, TRUE, "None",
                [expected_count |-> 0, actual_count |-> 0, comparison |-> "even"])

\* unknown rule type, and a mandatory rule without its parameters
CheckUnknown(r, item_counter) ==
    LET x == _extract_item_and_freq(r.name)
        actual == _count_item_occurrences(x.item, item_counter)
        expected == x.freq
        passed == IF x.is_max THEN actual <= expected ELSE actual >= expected
    IN  IF x.freq > 0 /\ x.item # <<>>
        THEN Finding(r, passed, "'{item}': Expected {expected}, Actual {actual}",
                [item_searched |-> x.item,
                 expected_count |-> expected,
                 actual_count |-> actual,
                 comparison |-> _derive_comparison(actual, expected)])
        ELSE Finding(r, TRUE, "None",
                [note |-> "Rule type not evaluable",
                 expected_count |-> 0, actual_count |-> 0, comparison |-> "even"])

\* legacy mandatory
CheckMandatory(r, daily_categories, item_counter, total_days) ==
    LET required_category == Lower(r.parameters.required_category)
        required_item == Lower(r.parameters.required_item)
        missing == SelectSeq(daily_categories,
                     LAMBDA dc : ~\E c \in Range(dc.categories) :
                                     Contains(required_category, Lower(c)))
        missing_days == DatesOf(missing)
        cat_actual == total_days - Len(missing_days)
        item_actual == _count_daily_item_presence(required_item, daily_categories)
    IN  IF required_category # <<>>
        THEN IF missing_days # <<>>
             THEN Finding(r, FALSE, "Category '{cat}' missing on {n}/{total_days} days",
                     [expected_count |-> total_days, actual_count |-> cat_actual,
                      comparison |-> _derive_comparison(cat_actual, total_days),
                      missing_days |-> Take(missing_days, 5)])
             ELSE Finding(r, TRUE, "Present all {total_days} days",
                     [expected_count |-> total_days, actual_count |-> cat_actual,
                      comparison |-> _derive_comparison(cat_actual, total_days)])
        ELSE IF required_item # <<>>
        THEN IF item_actual = 0
             THEN Finding(r, FALSE, "Required item '{item}' not found in any day",
                     [expected_count |-> total_days, actual_count |-> 0,
                      comparison |-> _derive_comparison(item_actual, total_days)])
             ELSE Finding(r, TRUE, "Found on {actual}/{total_days} days",
                     [expected_count |-> total_days, actual_count |-> item_actual,
                      comparison |-> _derive_comparison(item_actual, total_days)])
        ELSE CheckUnknown(r, item_counter)

\* rule.rule_type or "mandatory"
RuleType(r) == IF r.rule_type = "" THEN "mandatory" ELSE r.rule_type

\* the branches of _check_single_rule after the zero-day guard
DispatchRule(r, days_data, daily_categories, item_counter, total_days) ==
    LET rule_type == RuleType(r)
    IN  IF rule_type = "item_frequency_weekly"
        THEN CheckItemFrequencyWeekly(r, daily_categories, item_counter, total_days)
        ELSE IF rule_type = "item_frequency_monthly"
        THEN CheckItemFrequencyMonthly(r, daily_categories, item_counter)
        ELSE IF rule_type = "count_min"
        THEN IF r.name # <<>> /\ r.name[1] = "minimum"
             THEN CheckCountMinVariety(r, daily_categories)
             ELSE CheckItemPresent(r, daily_categories, total_days)
        ELSE IF rule_type = "count_max" THEN CheckCountMax(r, daily_categories)
        ELSE IF rule_type = "item_present"
        THEN CheckItemPresent(r, daily_categories, total_days)
        ELSE IF rule_type = "no_repeat_weekly"
        THEN CheckNoRepeatWeekly(r, daily_categories)
        ELSE IF rule_type = "no_repeat_daily"
        THEN CheckNoRepeatDaily(r, daily_categories)
        ELSE IF rule_type = "no_consecutive"
        THEN CheckNoConsecutive(r, daily_categories)
        ELSE IF rule_type = "frequency"
        THEN CheckFrequency(r, item_counter, total_days)
        ELSE IF rule_type = "mandatory"
        THEN CheckMandatory(r, daily_categories, item_counter, total_days)
        ELSE CheckUnknown(r, item_counter)

\* an evaluator without the zero-day guard
CheckSingleRuleNoGuard(r, days_data, daily_categories, item_counter, total_days) ==
    DispatchRule(r, days_data, daily_categories, item_counter, total_days)

_check_single_rule(r, days_data, daily_categories, item_counter, total_days) ==
    IF total_days = 0 THEN NoDaysResult(r)
    ELSE DispatchRule(r, days_data, daily_categories, item_counter, total_days)

\* the rules are a sequence, evaluated in order over the same day data
_evaluate_rules(rules, days_data) ==
    [i \in DOMAIN rules |->
        _check_single_rule(rules[i], days_data, DailyCategories(days_data),
                           AllItemsFlat(days_data), Len(days_data))]


\* ------------------------------------------------------------------------
\* Files
\* ------------------------------------------------------------------------

\* A file is [exists, ext, readable, rows]: rows is the grid of its cells
\* (the lines of a text or PDF file are rows of one cell), a cell is a string
\* and <<>> an empty cell; readable says that the container opens and
\* decodes (a workbook that loads, a PDF whose text layer can be extracted).

\* number of characters of a word
WordLen(w) ==
    CASE w = "" -> 0
      [] w \in {",", "0", "1", "2", "3"} -> 1
      [] w \in {"11", "ab", "tsach", "te"} -> 2
      [] w \in {"salat", "marak", "yom", "sheni", "1.2", "2.2"} -> 3
      [] w \in {"31.2"} -> 4
      [] w \in {"rishon", "tafrit"} -> 5
      [] w \in {"Hummus", "hummus"} -> 6
      [] OTHER -> 8

\* number of its characters in the Hebrew block U+0590..U+05FF
HebrewLen(w) ==
    IF w \in {"", ",", "11", "ab", "1.2", "2.2", "31.2", "Hummus", "hummus",
              "=== Sheet ==="}
    THEN 0 ELSE WordLen(w)

\* len(val)
CharLen(val) ==
    IF val = <<>> THEN 0
    ELSE SeqSum([i \in DOMAIN val |-> WordLen(val[i])]) + Len(val) - 1

HebrewChars(val) == SeqSum([i \in DOMAIN val |-> HebrewLen(val[i])])

\* words that start with \d{1,2}[./]\d{1,2}, and the day and month they hold
DateWords == {"1.2", "2.2", "31.2"}

DateWordDay(w) == CASE w = "1.2" -> 1 [] w = "2.2" -> 2 [] OTHER -> 31

DateWordMonth(w) == 2

\* words that hold one of _HEADER_KEYWORDS (per week holds week)
HeaderWords == {"tafrit", "bashavua"}

\* _SKIP_PATTERNS.match(val)
SkipPattern(val) ==
    \/ val # <<>> /\ val[1] \in DateWords
    \/ Len(val) >= 2 /\ val[1] = "yom" /\ HebrewLen(val[2]) > 0
    \/ Len(val) = 1 /\ val[1] \in NumWords
    \/ CharLen(val) <= 2

_is_dish_name(val) ==
    /\ ~(val = <<>> \/ CharLen(val) < 3 \/ CharLen(val) > 80)
    /\ HebrewChars(val) > 0
    /\ ~SkipPattern(val)
    /\ ~\E i \in DOMAIN val : LowerWord(val[i]) \in HeaderWords
    /\ HebrewChars(val) >= 2

\* code point order of the words, and of strings (a space sorts first)
WordRank(w) ==
    CASE w = "" -> 0 [] w = "," -> 1 [] w \in NumWords \cup DateWords -> 2
      [] w = "Hummus" -> 3 [] w = "ab" -> 4 [] w = "hummus" -> 5
      [] w = "bashavua" -> 6 [] w = "yom" -> 7 [] w = "marak" -> 8
      [] w = "naknikiyot" -> 9 [] w = "salat" -> 10 [] w = "tsach" -> 11
      [] w = "rishon" -> 12 [] w = "sheni" -> 13 [] OTHER -> 14

RECURSIVE StrLess(_, _)
StrLess(a, b) ==
    IF a = <<>> THEN b # <<>>
    ELSE IF b = <<>> THEN FALSE
    ELSE IF Head(a) = Head(b) THEN StrLess(Tail(a), Tail(b))
    ELSE WordRank(Head(a)) < WordRank(Head(b))

\* sorted(S)
RECURSIVE Sorted(_)
Sorted(S) ==
    IF S = {} THEN <<>>
    ELSE LET x == CHOOSE x \in S : \A y \in S : ~StrLess(y, x)
         IN  <<x>> \o Sorted(S \ {x})

AllCells(f) == FlattenSeq(f.rows)

\* the text of one row, cells joined
RowText(row, sep) ==
    FlattenSeq([i \in DOMAIN row |->
        IF i = 1 THEN row[i] ELSE <<sep>> \o row[i]])

\* _read_file_raw, as the list of the lines of the text; a workbook gets its
\* sheet marker line and the rows that hold a value
_read_file_raw(f) ==
    IF ~f.exists \/ ~f.readable THEN <<>>
    ELSE IF f.ext = "xlsx"
    THEN <<<<"=== Sheet ===">>>> \o
         SelectSeq([i \in DOMAIN f.rows |->
                       RowText(SelectSeq(f.rows[i], LAMBDA c : c # <<>>), "|")],
                   LAMBDA line : line # <<>>)
    ELSE [i \in DOMAIN f.rows |-> RowText(f.rows[i], ",")]

\* raw_text.strip() is not empty
HasText(raw) == \E i \in DOMAIN raw : \E k \in DOMAIN raw[i] : raw[i][k] # ""

extract_all_dishes_from_file(f) ==
    IF ~f.exists \/ ~f.readable THEN <<>>
    ELSE IF f.ext \in {"xlsx", "csv"}
    THEN Sorted({c \in Range(AllCells(f)) : _is_dish_name(Strip(c))})
    ELSE Sorted({l \in Range(_read_file_raw(f)) : _is_dish_name(Strip(l))})

\* ------------------------------------------------------------------------
\* Menu structuring
\* ------------------------------------------------------------------------

\* A month label is the sequence of its "-"-separated parts, "2026-02" being
\* <<"2026", "02">>; int() of a part, None where int() raises ValueError
PartVal(w) ==
    CASE w = "0" -> 0 [] w = "1" -> 1 [] w = "02" -> 2 [] w = "2" -> 2
      [] w = "12" -> 12 [] w = "13" -> 13 [] w = "2026" -> 2026
      [] OTHER -> None

\* int(month.split("-")[-1]) if "-" in month else int(month), 1 on ValueError
MonthNum(month) ==
    IF PartVal(month[Len(month)]) = None THEN 1 ELSE PartVal(month[Len(month)])

\* day_names, indexed by weekday() + 1
DayNames == <<"Monday", "Tuesday", "Wednesday", "Thursday", "Friday",
              "Saturday", "Sunday">>

\* the outcome of a call that may raise
Raised == [raised |-> TRUE, days |-> <<>>]

Returned(days_data) == [raised |-> FALSE, days |-> days_data]

\* placeholder days that leave out one day of the week only
PlaceholderDaysSixDayWeek(month, year) ==
    LET month_num == MonthNum(month)
        start == Ordinal(year, month_num, 1)
        dates == [i \in 1..DaysInMonth(year, month_num) |-> start + i - 1]
        weekdays == SelectSeq(dates, LAMBDA d : Weekday(d) < 6)
    IN  IF ~ValidDate(year, month_num, 1) THEN Raised
        ELSE Returned([i \in DOMAIN weekdays |->
                 [date |-> weekdays[i],
                  day_of_week |-> DayNames[Weekday(weekdays[i]) + 1],
                  items |-> <<>>]])

_generate_placeholder_days(month, year) ==
    LET month_num == MonthNum(month)
        end_ok == IF month_num = 12 THEN ValidDate(year + 1, 1, 1)
                  ELSE ValidDate(year, month_num + 1, 1)
        start == Ordinal(year, month_num, 1)
        dates == [i \in 1..DaysInMonth(year, month_num) |-> start + i - 1]
        weekdays == SelectSeq(dates, LAMBDA d : Weekday(d) < 5)
    IN  IF ~ValidDate(year, month_num, 1) \/ ~end_ok THEN Raised
        ELSE Returned([i \in DOMAIN weekdays |->
                 [date |-> weekdays[i],
                  day_of_week |-> DayNames[Weekday(weekdays[i]) + 1],
                  items |-> <<>>]])

\* words that hold one of the Hebrew day names of hebrew_days
DayNameWords == {"rishon", "sheni"}

\* a header cell: a day name anywhere in it, or a date at its start
IsDayLabel(cell) ==
    \/ \E i \in DOMAIN cell : cell[i] \in DayNameWords
    \/ cell # <<>> /\ cell[1] \in DateWords

\* the "main" category every directly extracted dish is filed under
MainCategory == <<"ikarit">>

\* the cell of a row at a column, "" beyond the row's end
CellAt(row, col) == IF col <= Len(row) THEN Strip(row[col]) ELSE <<>>

_extract_days_from_excel_columns(f, month, year) ==
    LET all_rows == f.rows
        heads == {r \in 1..(IF Len(all_rows) < 5 THEN Len(all_rows) ELSE 5) :
                     \E c \in DOMAIN all_rows[r] : IsDayLabel(Strip(all_rows[r][c]))}
        head == MinOf(heads)
        day_col_indices ==
            SelectSeq([c \in DOMAIN all_rows[head] |-> c],
                      LAMBDA c : IsDayLabel(Strip(all_rows[head][c])))
        month_num == MonthNum(month)
        ColItems(col) ==
            SelectSeq([r \in DOMAIN all_rows |-> CellAt(all_rows[r], col)],
                      LAMBDA v : _is_dish_name(v))
        Label(i) == Strip(all_rows[head][day_col_indices[i]])
        DateWordsOf(label) == {k \in DOMAIN label : label[k] \in DateWords}
        LabelDateOk(i) ==
            /\ DateWordsOf(Label(i)) # {}
            /\ ValidDate(year, DateWordMonth(Label(i)[MinOf(DateWordsOf(Label(i)))]),
                         DateWordDay(Label(i)[MinOf(DateWordsOf(Label(i)))]))
        SeqDay(i) == IF i < 28 THEN i ELSE 28
        DayDate(i) ==
            IF LabelDateOk(i)
            THEN Ordinal(year, DateWordMonth(Label(i)[MinOf(DateWordsOf(Label(i)))]),
                         DateWordDay(Label(i)[MinOf(DateWordsOf(Label(i)))]))
            ELSE Ordinal(year, month_num, SeqDay(i))
        filled == SelectSeq([i \in DOMAIN day_col_indices |-> i],
                            LAMBDA i : ColItems(day_col_indices[i]) # <<>>)
    IN  IF ~f.exists \/ ~f.readable \/ all_rows = <<>> \/ heads = {} THEN <<>>
        ELSE IF \E k \in DOMAIN filled :
                   ~LabelDateOk(filled[k])
                   /\ ~ValidDate(year, month_num, SeqDay(filled[k]))
        THEN <<>>
        ELSE [k \in DOMAIN filled |->
                 [date |-> DayDate(filled[k]),
                  day_of_week |-> DayNames[Weekday(DayDate(filled[k])) + 1],
                  items |-> <<[cat |-> MainCategory, list |-> TRUE,
                               dishes |-> ColItems(day_col_indices[filled[k]])]>>]]

\* a fallback that deals the dishes out, one to each day in turn
BuildDaysDistributed(f, month, year) ==
    LET all_dishes == extract_all_dishes_from_file(f)
        placeholder == _generate_placeholder_days(month, year)
        structured == IF f.ext = "xlsx"
                      THEN _extract_days_from_excel_columns(f, month, year)
                      ELSE <<>>
    IN  IF all_dishes = <<>> THEN placeholder
        ELSE IF placeholder.raised THEN Raised
        ELSE IF structured # <<>> THEN Returned(structured)
        ELSE Returned([i \in DOMAIN placeholder.days |->
                 [placeholder.days[i] EXCEPT
                     !.items = <<[cat |-> MainCategory, list |-> TRUE,
                                  dishes |-> <<all_dishes[((i - 1) % Len(all_dishes)) + 1]>>]>>]])

_build_days_from_direct_extraction(f, month, year) ==
    LET all_dishes == extract_all_dishes_from_file(f)
        placeholder == _generate_placeholder_days(month, year)
        structured == IF f.ext = "xlsx"
                      THEN _extract_days_from_excel_columns(f, month, year)
                      ELSE <<>>
    IN  IF all_dishes = <<>> THEN placeholder
        ELSE IF placeholder.raised THEN Raised
        ELSE IF structured # <<>> THEN Returned(structured)
        ELSE Returned([i \in DOMAIN placeholder.days |->
                 [placeholder.days[i] EXCEPT
                     !.items = <<[cat |-> MainCategory, list |-> TRUE,
                                  dishes |-> all_dishes]>>]])

\* The answer of the text-generation service is [kind, wellformed, days]:
\* kind "raise" is a call that raises (service not configured, transport
\* error, text that is not JSON), "object" a JSON value that is no list,
\* "list" a list; wellformed says that every element is an object whose
\* "items" is an object, as the item count needs them.

\* sum(len(items) for day in result for items in day["items"].values()
\*     if isinstance(items, list))
ItemsCount(ai_days) ==
    SeqSum([i \in DOMAIN ai_days |->
        SeqSum([k \in DOMAIN ai_days[i].items |->
            IF ai_days[i].items[k].list THEN Len(ai_days[i].items[k].dishes)
            ELSE 0])])

\* validation that stops at the non-empty list
AIAcceptedNonEmpty(ai) ==
    ai.kind = "list" /\ Len(ai.days) > 0 /\ ai.wellformed

\* the answer passes parse_menu_file's validation
AIAccepted(ai) ==
    /\ ai.kind = "list"
    /\ Len(ai.days) > 0
    /\ ai.wellformed
    /\ ItemsCount(ai.days) > 0

parse_menu_file(f, month, year, ai) ==
    IF ~HasText(_read_file_raw(f)) THEN _generate_placeholder_days(month, year)
    ELSE IF AIAccepted(ai) THEN Returned(ai.days)
    ELSE _build_days_from_direct_extraction(f, month, year)

\* a parse that asks the service again after a rejected answer
AICallsRetry(f, a) ==
    IF ~HasText(_read_file_raw(f))
    THEN [generate_structured_response |-> 0, messages_create |-> 0]
    ELSE [generate_structured_response |-> IF AIAccepted(a) THEN 1 ELSE 2,
          messages_create |-> IF a.kind = "unconfigured" THEN 0
                              ELSE IF AIAccepted(a) THEN 1 ELSE 2]

\* the calls one parse_menu_file makes: of the wrapper
\* generate_structured_response, and of the request messages.create behind
\* it, which an unconfigured wrapper raises before sending
AICalls(f, a) ==
    IF ~HasText(_read_file_raw(f))
    THEN [generate_structured_response |-> 0, messages_create |-> 0]
    ELSE [generate_structured_response |-> 1,
          messages_create |-> IF a.kind = "unconfigured" THEN 0 ELSE 1]

\* ------------------------------------------------------------------------
\* One run of the compliance check: what it stages in its session
\* ------------------------------------------------------------------------

\* the days of days_data whose date parses (date.fromisoformat)
DatedDays(days_data) == SelectSeq(days_data, LAMBDA d : d.date # NoDate)

\* week_num of the i-th dated day: one more for every change of ISO week
WeekNumber(dated, i) ==
    1 + Cardinality({k \in 2..i : IsoWeek(dated[k].date) # IsoWeek(dated[k - 1].date)})

\* the MenuDay rows added for a fresh parse
NewMenuDays(check_id, days_data) ==
    LET dated == DatedDays(days_data)
    IN  [i \in DOMAIN dated |->
            [menu_check_id |-> check_id,
             date |-> dated[i].date,
             day_of_week |-> dated[i].day_of_week,
             week_number |-> WeekNumber(dated, i),
             menu_items |-> dated[i].items]]

\* days_data rebuilt from the stored MenuDay rows
StoredDays(stored_days) ==
    [i \in DOMAIN stored_days |->
        [date |-> stored_days[i].date,
         day_of_week |-> stored_days[i].day_of_week,
         items |-> stored_days[i].menu_items]]

\* the CheckResult rows added for the findings of one run
NewCheckResults(check_id, check_results) ==
    [i \in DOMAIN check_results |->
        [menu_check_id |-> check_id,
         rule_name |-> check_results[i].rule_name,
         rule_category |-> check_results[i].rule_category,
         passed |-> check_results[i].passed,
         severity |-> check_results[i].severity,
         finding_text |-> check_results[i].finding_text,
         evidence |-> IF check_results[i].rule_id # 0
                      THEN [rule_id |-> check_results[i].rule_id]
                               @@ check_results[i].evidence
                      ELSE check_results[i].evidence,
         reviewed |-> FALSE]]

\* number of findings of the set
CountIn(check_results, S) == Cardinality({i \in DOMAIN check_results : check_results[i] \in S})

\* evidence.get("comparison", "even")
ComparisonOf(cr) ==
    IF "comparison" \in DOMAIN cr.evidence THEN cr.evidence.comparison ELSE "even"

\* totals that count every failing finding as a warning
CheckTotalsNoSeverity(check_results) ==
    LET all == Range(check_results)
        failing == CountIn(check_results, {cr \in all : ~cr.passed})
    IN  [total_findings |-> failing,
         critical_findings |-> 0,
         warnings |-> failing,
         passed_rules |-> CountIn(check_results, {cr \in all : cr.passed}),
         dishes_above |->
             CountIn(check_results, {cr \in all : ComparisonOf(cr) = "above"}),
         dishes_under |->
             CountIn(check_results, {cr \in all : ComparisonOf(cr) = "under"}),
         dishes_even |->
             CountIn(check_results,
                     {cr \in all : ComparisonOf(cr) \notin {"above", "under"}})]

\* the totals written on the check
CheckTotals(check_results) ==
    LET all == Range(check_results)
        critical_count ==
            CountIn(check_results,
                    {cr \in all : ~cr.passed /\ cr.severity = "critical"})
        warning_count ==
            CountIn(check_results,
                    {cr \in all : ~cr.passed /\ cr.severity # "critical"})
    IN  [total_findings |-> critical_count + warning_count,
         critical_findings |-> critical_count,
         warnings |-> warning_count,
         passed_rules |-> CountIn(check_results, {cr \in all : cr.passed}),
         dishes_above |->
             CountIn(check_results, {cr \in all : ComparisonOf(cr) = "above"}),
         dishes_under |->
             CountIn(check_results, {cr \in all : ComparisonOf(cr) = "under"}),
         dishes_even |->
             CountIn(check_results,
                     {cr \in all : ComparisonOf(cr) \notin {"above", "under"}})]

\* unique_dishes: the dishes of the file, then those of days_data
UniqueDishes(has_path, f, days_data) ==
    (IF has_path /\ f.exists THEN Range(extract_all_dishes_from_file(f)) ELSE {})
    \cup
    UNION {UNION {{name \in {Strip(d.items[k].dishes[j]) :
                                j \in DOMAIN d.items[k].dishes} :
                     CharLen(name) >= 3}
                  : k \in DOMAIN d.items} : d \in Range(days_data)}

\* evidence.get("item_searched") or evidence.get("category_keyword", "")
ApprovedItem(cr) ==
    IF "item_searched" \in DOMAIN cr.evidence /\ cr.evidence.item_searched # <<>>
    THEN cr.evidence.item_searched
    ELSE IF "category_keyword" \in DOMAIN cr.evidence
    THEN cr.evidence.category_keyword
    ELSE <<>>

\* the keywords of all the rules, passed or not
ApprovedKeywordsAllRules(check_results) ==
    {Lower(ApprovedItem(cr)) :
        cr \in {c \in Range(check_results) : ApprovedItem(c) # <<>>}}

approved_keywords(check_results) ==
    {Lower(ApprovedItem(cr)) :
        cr \in {c \in Range(check_results) : c.passed /\ ApprovedItem(c) # <<>>}}

\* the DishCatalog rows added by _auto_extract_dishes_to_catalog, given the
\* names its select found in the catalog
_auto_extract_dishes_to_catalog(days_data, check_id, check_results, existing_names, has_path, f) ==
    LET fresh == Sorted(UniqueDishes(has_path, f, days_data) \ existing_names)
        kws == approved_keywords(check_results)
    IN  [i \in DOMAIN fresh |->
            [dish_name |-> fresh[i],
             approved |-> \E kw \in kws : Contains(kw, Lower(fresh[i])),
             source_check_id |-> check_id]]

\* ------------------------------------------------------------------------
\* Inputs of the model
\* ------------------------------------------------------------------------

\* rule names
NameMaxFirst  == <<"maximum", "paam", "bashavua", "naknikiyot">>
NameItemFirst == <<"naknikiyot", "maximum", "paam", "bashavua">>
NameTimes     == <<"hummus", "2", "peamim", "bashavua">>
NameMinOne    == <<"minimum", "1", "sugey", "salatim", "bayom">>
NameMinTwo    == <<"minimum", "2", "sugey", "salatim", "bayom">>
NameMaxDaily  == <<"maximum", "1", "manot", "naknikiyot", "bayom">>
NameDaily     == <<"salat", "hummus", "yomi">>
NameBare      == <<"maximum">>

RuleNames == {NameMaxFirst, NameItemFirst, NameTimes, NameMinOne, NameMinTwo,
              NameMaxDaily, NameDaily, NameBare}

RuleTypes == {"item_frequency_weekly", "item_frequency_monthly", "count_min",
              "count_max", "item_present", "no_repeat_weekly", "no_repeat_daily",
              "no_consecutive", "frequency", "mandatory", "", "special"}

ParamBags ==
    {NoParams,
     [NoParams EXCEPT !.item = <<"naknikiyot">>, !.max_per_week = 1],
     [NoParams EXCEPT !.item = <<"Hummus">>, !.min_per_week = 2, !.min_per_month = 2],
     [NoParams EXCEPT !.item = <<"hummus">>, !.min_per_week = 0, !.max_per_month = 1],
     [NoParams EXCEPT !.required_category = <<"salatim">>],
     [NoParams EXCEPT !.required_item = <<"naknikiyot">>]}

Priorities == {1, 2}

MkRule(id, type, name, params, priority, active) ==
    [id |-> id, name |-> name, rule_type |-> type, category |-> <<"menu">>,
     parameters |-> params, priority |-> priority, is_active |-> active]

\* the contents of a menu day
ItemsSausage == <<[cat |-> <<"ikarit">>, list |-> TRUE,
                   dishes |-> <<<<"naknikiyot">>>>]>>
ItemsSalad   == <<[cat |-> <<"salatim">>, list |-> TRUE,
                   dishes |-> <<<<"salat", "Hummus">>>>]>>
ItemsBoth    == <<[cat |-> <<"ikarit">>, list |-> TRUE,
                   dishes |-> <<<<"naknikiyot">>, <<"salat", "hummus">>>>],
                  [cat |-> <<"tosafot">>, list |-> TRUE,
                   dishes |-> <<<<"salat", "Hummus">>>>]>>
ItemsText    == <<[cat |-> <<"marak">>, list |-> FALSE,
                   dishes |-> <<<<"marak", "tsach">>>>]>>
ItemsNone    == <<>>
\* a salad under the salads category next to a main dish under its own
ItemsMixed   == <<[cat |-> <<"salatim">>, list |-> TRUE,
                   dishes |-> <<<<"salat", "Hummus">>>>],
                  [cat |-> <<"ikarit">>, list |-> TRUE,
                   dishes |-> <<<<"naknikiyot">>>>]>>

DayKinds == {ItemsSausage, ItemsSalad, ItemsBoth, ItemsText, ItemsNone,
             ItemsMixed}

MonthKinds == {<<ItemsSausage, ItemsNone>>, <<ItemsBoth, ItemsSalad>>}

\* the i-th day of a list that starts on Sunday 2026-02-01
MkDay(i, items) ==
    LET d == Ordinal(2026, 2, 1) + i - 1
    IN  [date |-> d, day_of_week |-> DayNames[Weekday(d) + 1], items |-> items]

\* bounds of the day lists
SmallDays == 2

MonthDays == 21

\* n days, the first j with the one content and the others with the other
MonthList(n, j, ab) == [i \in 1..n |-> MkDay(i, IF i <= j THEN ab[1] ELSE ab[2])]

RECURSIVE KindLists(_)
KindLists(n) ==
    IF n = 0 THEN {<<>>}
    ELSE KindLists(n - 1) \cup
         {Append(l, k) : l \in {x \in KindLists(n - 1) : Len(x) = n - 1},
                         k \in DayKinds}

SmallLists == {[i \in DOMAIN l |-> MkDay(i, l[i])] : l \in KindLists(SmallDays)}

MonthLists == UNION {{MonthList(n, j, ab) : j \in 0..n, ab \in MonthKinds} :
                        n \in (MonthDays - 1)..MonthDays}

EvalRules == {MkRule(1, t, n, p, pr, TRUE) :
                 t \in RuleTypes, n \in RuleNames, p \in ParamBags, pr \in Priorities}

\* the rules evaluated against the lists of a month
MonthRules == {r \in EvalRules : r.priority = 1}

\* bound of the day lists of every length
LongestMonth == 31

\* the lists of 1..LongestMonth days in which the first j days hold one dish
WeekKinds == {<<ItemsSausage, ItemsNone>>, <<ItemsSalad, ItemsNone>>}

WeekLists == UNION {{MonthList(n, j, ab) : j \in 0..n, ab \in WeekKinds} :
                       n \in 1..LongestMonth}

\* the rules with a weekly cadence
WeekRules == {r \in EvalRules :
                 /\ r.priority = 1
                 /\ r.rule_type \in {"frequency", "item_frequency_weekly"}
                 /\ r.name \in {NameItemFirst, NameTimes, NameBare}}

\* the files a menu check can point at
FileMissing == [exists |-> FALSE, ext |-> "xlsx", readable |-> FALSE, rows |-> <<>>]

FileCorrupt == [exists |-> TRUE, ext |-> "xlsx", readable |-> FALSE, rows |-> <<>>]

\* a workbook with one column per day under a header row
FileGrid ==
    [exists |-> TRUE, ext |-> "xlsx", readable |-> TRUE,
     rows |-> << <<<<"yom", "rishon">>, <<"2.2">>, <<"yom", "31.2">>>>,
                 <<<<"naknikiyot">>, <<"salat", "Hummus">>, <<"marak", "tsach">>>>,
                 <<<<"marak", "tsach">>, <<>>, <<"11">>>> >>]

\* a workbook whose header row names the days without the word "day"
FileLabels ==
    [exists |-> TRUE, ext |-> "xlsx", readable |-> TRUE,
     rows |-> << <<<<"rishon">>, <<"sheni">>>>,
                 <<<<"naknikiyot">>, <<"salat", "Hummus">>>> >>]

\* a workbook whose header row dates the first column and names the second
FileMixed ==
    [exists |-> TRUE, ext |-> "xlsx", readable |-> TRUE,
     rows |-> << <<<<"2.2">>, <<"yom", "sheni">>>>,
                 <<<<"naknikiyot">>, <<"marak", "tsach">>>> >>]

\* a workbook with dishes and no header row
FileFlat ==
    [exists |-> TRUE, ext |-> "xlsx", readable |-> TRUE,
     rows |-> << <<<<"naknikiyot">>, <<"11">>>>, <<<<"salat", "Hummus">>>> >>]

FileCsv ==
    [exists |-> TRUE, ext |-> "csv", readable |-> TRUE,
     rows |-> << <<<<"tafrit">>, <<"naknikiyot">>>>, <<<<"marak", "tsach">>>> >>]

\* a text file of blank lines
FileBlank ==
    [exists |-> TRUE, ext |-> "txt", readable |-> TRUE, rows |-> << <<<<"">>>> >>]

\* a text file with text and nothing that reads as a dish
FileNoDish ==
    [exists |-> TRUE, ext |-> "txt", readable |-> TRUE, rows |-> << <<<<"11">>>> >>]

ParseFiles == {FileMissing, FileCorrupt, FileGrid, FileLabels, FileMixed,
               FileFlat, FileCsv, FileBlank, FileNoDish}

MonthLabels == {<<"2026", "02">>, <<"2">>, <<"12">>, <<"13">>, <<"0">>,
                <<"2026", "tafrit">>}

Years == {2026, 9999}

\* the answers of the text-generation service
AIRaise == [kind |-> "raise", wellformed |-> FALSE, days |-> <<>>]

\* no API key: generate_response raises RuntimeError before any request
AIUnconfigured == [kind |-> "unconfigured", wellformed |-> FALSE, days |-> <<>>]

AIObject == [kind |-> "object", wellformed |-> FALSE, days |-> <<>>]

AIEmptyList == [kind |-> "list", wellformed |-> TRUE, days |-> <<>>]

\* a list whose element has a list where the "items" object belongs
AIMalformed == [kind |-> "list", wellformed |-> FALSE,
                days |-> <<MkDay(1, ItemsSausage)>>]

\* [{"date": "2026-02-01", "day_of_week": "Sunday", "items": {}}]
AINoItems == [kind |-> "list", wellformed |-> TRUE, days |-> <<MkDay(1, ItemsNone)>>]

\* days whose categories hold a string or an empty list, never a dish
AIHollow == [kind |-> "list", wellformed |-> TRUE,
             days |-> <<MkDay(1, ItemsText),
                        MkDay(2, <<[cat |-> <<"salatim">>, list |-> TRUE,
                                    dishes |-> <<>>]>>)>>]

AIValid == [kind |-> "list", wellformed |-> TRUE,
            days |-> <<MkDay(1, ItemsBoth), MkDay(2, ItemsNone)>>]

\* an answer with a dish name of two characters
ItemsTea == <<[cat |-> <<"shtiya">>, list |-> TRUE, dishes |-> <<<<"te">>>>]>>

AIShortName == [kind |-> "list", wellformed |-> TRUE,
                days |-> <<MkDay(1, ItemsBoth), MkDay(2, ItemsTea)>>]

AIOutcomes == {AIRaise, AIUnconfigured, AIObject, AIEmptyList, AIMalformed, AINoItems,
               AIHollow, AIValid}

\* ------------------------------------------------------------------------
\* State
\* ------------------------------------------------------------------------

\* rule evaluation on its own
VARIABLES rule, days, result

\* file parsing on its own
VARIABLES file, month, year, ai, parsed, ai_calls

\* the stored tables, the menu files on disk, the open sessions of the
\* runs in progress (one per process) and the number of runs started
VARIABLES menu_checks, menu_days, check_results, dish_catalog,
          compliance_rules, files, sessions, runs

EvalVars == <<rule, days, result>>

ParseVars == <<file, month, year, ai, parsed, ai_calls>>

Tables == <<menu_checks, menu_days, check_results, dish_catalog>>

RunVars == <<Tables, compliance_rules, files, sessions, runs>>

vars == <<EvalVars, ParseVars, RunVars>>

RunIdle ==
    /\ menu_checks = <<>> /\ menu_days = <<>> /\ check_results = <<>>
    /\ dish_catalog = {} /\ compliance_rules = <<>> /\ files = <<>>
    /\ sessions = <<>> /\ runs = 0

EvalIdle == rule = <<>> /\ days = <<>> /\ result = <<>>

ParseIdle == file = FileMissing /\ month = <<>> /\ year = 0 /\ ai = AIRaise
             /\ parsed = <<>> /\ ai_calls = <<>>

\* ------------------------------------------------------------------------
\* Rule evaluation on its own: one rule against one list of days
\* ------------------------------------------------------------------------

EvalInit ==
    /\ rule \in EvalRules
    /\ days \in SmallLists
    /\ result = <<>>
    /\ ParseIdle
    /\ RunIdle

Evaluate ==
    /\ result = <<>>
    /\ result' = _evaluate_rules(<<rule>>, days)
    /\ UNCHANGED <<rule, days, ParseVars, RunVars>>

EvalNext == Evaluate

SpecEval == EvalInit /\ [][EvalNext]_vars

\* the same over the day lists of a month
MonthInit ==
    /\ rule \in MonthRules
    /\ days \in MonthLists
    /\ result = <<>>
    /\ ParseIdle
    /\ RunIdle

SpecMonth == MonthInit /\ [][EvalNext]_vars

\* the weekly rules over day lists of every length
WeeksInit ==
    /\ rule \in WeekRules
    /\ days \in WeekLists
    /\ result = <<>>
    /\ ParseIdle
    /\ RunIdle

SpecWeeks == WeeksInit /\ [][EvalNext]_vars

\* ------------------------------------------------------------------------
\* File parsing on its own: one file, one answer of the service
\* ------------------------------------------------------------------------

ParseInit ==
    /\ file \in ParseFiles
    /\ month \in MonthLabels
    /\ year \in Years
    /\ ai \in AIOutcomes
    /\ parsed = <<>>
    /\ ai_calls = <<>>
    /\ EvalIdle
    /\ RunIdle

\* await parse_menu_file(file_path, month, year)
Parse ==
    /\ parsed = <<>>
    /\ parsed' = <<parse_menu_file(file, month, year, ai)>>
    /\ ai_calls' = <<AICalls(file, ai)>>
    /\ UNCHANGED <<file, month, year, ai, EvalVars, RunVars>>

ParseNext == Parse

SpecParse == ParseInit /\ [][ParseNext]_vars

\* ------------------------------------------------------------------------
\* Runs of the compliance check against the stored tables
\* ------------------------------------------------------------------------

\* checks 1 and 2 were uploaded with their files; no check has the third id
MenuCheckIds == {1, 2}

RunCheckIds == {1, 2, 3}

Procs == {1, 2}

\* bound on the number of requests served: runs started and catalog
\* requests together
MaxRuns == 2

ZeroTotals == [total_findings |-> 0, critical_findings |-> 0, warnings |-> 0,
               passed_rules |-> 0, dishes_above |-> 0, dishes_under |-> 0,
               dishes_even |-> 0]

SeedRules ==
    <<MkRule(1, "item_frequency_weekly", NameItemFirst, NoParams, 1, TRUE),
      MkRule(2, "count_min", NameMinOne, NoParams, 2, TRUE),
      MkRule(3, "mandatory", NameBare, NoParams, 1, FALSE),
      MkRule(4, "item_frequency_weekly", NameTimes, NoParams, 1, TRUE)>>

\* the answers the service gives during a run
RunAnswers == {AIRaise, AIShortName}

\* the names the catalog endpoint is asked to add
BulkNames == {<<"naknikiyot">>}

\* the checks whose file is lost while the service runs
LostCheckIds == {1}

\* the rules DELETE /rules/{rule_id} is asked to deactivate
DeletedRuleIds == {2}

\* the name the single-dish endpoint is asked to create
CreateNames == {<<"marak", "tsach">>}

\* a session with nothing staged
IdleSession ==
    [pc |-> "idle", check_id |-> 0, check |-> [file_path |-> FALSE,
                                               month |-> <<>>, year |-> 0],
     rules |-> <<>>, days_data |-> <<>>, delete_days |-> FALSE,
     add_days |-> <<>>, add_results |-> <<>>, has_totals |-> FALSE,
     totals |-> ZeroTotals, add_dishes |-> <<>>, outcome |-> "none",
     error |-> "none"]

CatalogNames == {d.dish_name : d \in dish_catalog}

RunInit ==
    /\ menu_checks = [c \in MenuCheckIds |->
                         [file_path |-> TRUE, month |-> <<"2026", "02">>,
                          year |-> 2026, totals |-> ZeroTotals]]
    /\ menu_days = [c \in MenuCheckIds |-> <<>>]
    /\ check_results = [c \in MenuCheckIds |-> <<>>]
    /\ dish_catalog = {}
    /\ compliance_rules = SeedRules
    /\ files = [c \in MenuCheckIds |-> FileGrid]
    /\ sessions = [p \in Procs |-> IdleSession]
    /\ runs = 0
    /\ EvalIdle
    /\ ParseIdle

\* a run that loads every rule, whatever its active flag
RunStartAllRules(p, c) ==
    /\ sessions[p].pc \in {"idle", "done"}
    /\ runs < MaxRuns
    /\ runs' = runs + 1
    /\ sessions' = [sessions EXCEPT ![p] =
          IF c \notin DOMAIN menu_checks
          THEN [IdleSession EXCEPT !.pc = "done", !.check_id = c,
                                   !.outcome = "raised", !.error = "not_found"]
          ELSE [IdleSession EXCEPT
                   !.pc = "loaded", !.check_id = c,
                   !.check = [file_path |-> menu_checks[c].file_path,
                              month |-> menu_checks[c].month,
                              year |-> menu_checks[c].year],
                   !.rules = compliance_rules]]
    /\ UNCHANGED <<Tables, compliance_rules, files, EvalVars, ParseVars>>

\* select the check (ValueError when there is none) and the active rules
RunStart(p, c) ==
    /\ sessions[p].pc \in {"idle", "done"}
    /\ runs < MaxRuns
    /\ runs' = runs + 1
    /\ sessions' = [sessions EXCEPT ![p] =
          IF c \notin DOMAIN menu_checks
          THEN [IdleSession EXCEPT !.pc = "done", !.check_id = c,
                                   !.outcome = "raised", !.error = "not_found"]
          ELSE [IdleSession EXCEPT
                   !.pc = "loaded", !.check_id = c,
                   !.check = [file_path |-> menu_checks[c].file_path,
                              month |-> menu_checks[c].month,
                              year |-> menu_checks[c].year],
                   !.rules = SelectSeq(compliance_rules, LAMBDA r : r.is_active)]]
    /\ UNCHANGED <<Tables, compliance_rules, files, EvalVars, ParseVars>>

\* days_data of the run: the fresh parse, [] when there is no file path or
\* the parse raises
FreshDays(s, f, a) ==
    IF ~s.check.file_path THEN <<>>
    ELSE LET p == parse_menu_file(f, s.check.month, s.check.year, a)
         IN  IF p.raised THEN <<>> ELSE p.days

\* a parse step whose DELETE of the stored days takes effect at once
RunParseAutocommit(p) ==
    /\ sessions[p].pc = "loaded"
    /\ \E a \in RunAnswers :
          LET s == sessions[p]
              fresh == FreshDays(s, files[s.check_id], a)
          IN  /\ sessions' = [sessions EXCEPT ![p] =
                    IF fresh # <<>>
                    THEN [s EXCEPT !.pc = "parsed", !.days_data = fresh,
                                   !.delete_days = TRUE,
                                   !.add_days = NewMenuDays(s.check_id, fresh)]
                    ELSE [s EXCEPT !.pc = "parsed",
                                   !.days_data = StoredDays(menu_days[s.check_id])]]
              /\ menu_days' = [menu_days EXCEPT ![s.check_id] =
                                  IF fresh # <<>> THEN <<>> ELSE @]
    /\ UNCHANGED <<menu_checks, check_results, dish_catalog, compliance_rules,
                   files, runs, EvalVars, ParseVars>>

\* parse the file, then stage the replacement of the stored days or read them
RunParse(p) ==
    /\ sessions[p].pc = "loaded"
    /\ \E a \in RunAnswers :
          LET s == sessions[p]
              fresh == FreshDays(s, files[s.check_id], a)
          IN  sessions' = [sessions EXCEPT ![p] =
                 IF fresh # <<>>
                 THEN [s EXCEPT !.pc = "parsed", !.days_data = fresh,
                                !.delete_days = TRUE,
                                !.add_days = NewMenuDays(s.check_id, fresh)]
                 ELSE [s EXCEPT !.pc = "parsed",
                                !.days_data = StoredDays(menu_days[s.check_id])]]
    /\ UNCHANGED <<Tables, compliance_rules, files, runs, EvalVars, ParseVars>>

\* evaluate the rules, stage the findings, the totals and the new dishes
RunEvaluate(p) ==
    /\ sessions[p].pc = "parsed"
    /\ LET s == sessions[p]
           found == _evaluate_rules(s.rules, s.days_data)
       IN  sessions' = [sessions EXCEPT ![p] =
              [s EXCEPT !.pc = "evaluated",
                        !.add_results = NewCheckResults(s.check_id, found),
                        !.has_totals = TRUE,
                        !.totals = CheckTotals(found),
                        !.add_dishes =
                            _auto_extract_dishes_to_catalog(
                                s.days_data, s.check_id, found, CatalogNames,
                                s.check.file_path, files[s.check_id])]]
    /\ UNCHANGED <<Tables, compliance_rules, files, runs, EvalVars, ParseVars>>

\* the tables after the staged writes of a session are committed
CommittedDays(s) ==
    [menu_days EXCEPT ![s.check_id] = IF s.delete_days THEN s.add_days ELSE @]

CommittedResults(s) ==
    [check_results EXCEPT ![s.check_id] = @ \o s.add_results]

CommittedChecks(s) ==
    [menu_checks EXCEPT ![s.check_id].totals = s.totals]

CommittedCatalog(s) == dish_catalog \cup Range(s.add_dishes)

\* a dish_name column without its UNIQUE index: no flush is refused
NoUniqueIndex(s) == FALSE

\* the flush of the staged catalog rows meets the UNIQUE index on dish_name
UniqueViolation(s) ==
    \E i \in DOMAIN s.add_dishes : s.add_dishes[i].dish_name \in CatalogNames

\* await db.commit(): everything staged at once, or IntegrityError
RunCommit(p) ==
    /\ sessions[p].pc = "evaluated"
    /\ LET s == sessions[p]
       IN  IF UniqueViolation(s)
           THEN /\ sessions' = [sessions EXCEPT ![p] =
                       [s EXCEPT !.pc = "done", !.outcome = "raised",
                                 !.error = "integrity"]]
                /\ UNCHANGED Tables
           ELSE /\ sessions' = [sessions EXCEPT ![p] =
                       [s EXCEPT !.pc = "done", !.outcome = "returned"]]
                /\ menu_days' = CommittedDays(s)
                /\ check_results' = CommittedResults(s)
                /\ menu_checks' = CommittedChecks(s)
                /\ dish_catalog' = CommittedCatalog(s)
    /\ UNCHANGED <<compliance_rules, files, runs, EvalVars, ParseVars>>

\* a statement of the run fails in the storage layer: the exception leaves
\* run_compliance_check and the session is rolled back
RunRaise(p) ==
    /\ sessions[p].pc \in {"loaded", "parsed", "evaluated"}
    /\ sessions' = [sessions EXCEPT ![p] =
          [@ EXCEPT !.pc = "done", !.outcome = "raised", !.error = "storage"]]
    /\ UNCHANGED <<Tables, compliance_rules, files, runs, EvalVars, ParseVars>>

\* the file of a check is removed from disk, or overwritten with bytes that
\* do not open
FileLost(c, f) ==
    /\ files[c].exists /\ files[c].readable
    /\ files' = [files EXCEPT ![c] = f]
    /\ UNCHANGED <<Tables, compliance_rules, sessions, runs, EvalVars, ParseVars>>

\* POST /bulk-add: the names the catalog does not hold yet are added
bulk_add_dishes(dish_names) ==
    /\ runs < MaxRuns
    /\ dish_names \ CatalogNames # {}
    /\ dish_catalog' = dish_catalog \cup
          {[dish_name |-> n, approved |-> FALSE, source_check_id |-> None] :
              n \in dish_names \ CatalogNames}
    /\ runs' = runs + 1
    /\ UNCHANGED <<menu_checks, menu_days, check_results, compliance_rules,
                   files, sessions, EvalVars, ParseVars>>

\* POST "": 409 when the name is in the catalog, else the dish is added
create_dish(dish_name) ==
    /\ runs < MaxRuns
    /\ Strip(dish_name) \notin CatalogNames
    /\ dish_catalog' = dish_catalog \cup
          {[dish_name |-> Strip(dish_name), approved |-> FALSE,
            source_check_id |-> None]}
    /\ runs' = runs + 1
    /\ UNCHANGED <<menu_checks, menu_days, check_results, compliance_rules,
                   files, sessions, EvalVars, ParseVars>>

\* the unique dish names of the stored days of a check
StoredDishes(stored_days) ==
    UNION {UNION {{name \in {Strip(d.menu_items[k].dishes[j]) :
                                j \in DOMAIN d.menu_items[k].dishes} :
                     name # <<>>}
                  : k \in DOMAIN d.menu_items} : d \in Range(stored_days)}

\* POST /extract/{check_id}: 404 when the check has no stored days, else the
\* dish names of its days the catalog does not hold yet are added
extract_dishes_from_check(check_id) ==
    /\ runs < MaxRuns
    /\ menu_days[check_id] # <<>>
    /\ StoredDishes(menu_days[check_id]) \ CatalogNames # {}
    /\ dish_catalog' = dish_catalog \cup
          {[dish_name |-> n, approved |-> FALSE, source_check_id |-> None] :
              n \in StoredDishes(menu_days[check_id]) \ CatalogNames}
    /\ runs' = runs + 1
    /\ UNCHANGED <<menu_checks, menu_days, check_results, compliance_rules,
                   files, sessions, EvalVars, ParseVars>>

\* DELETE /rules/{rule_id}: 404 when there is no such rule, else the rule
\* is deactivated
delete_rule(rule_id) ==
    /\ runs < MaxRuns
    /\ \E i \in DOMAIN compliance_rules : compliance_rules[i].id = rule_id
    /\ compliance_rules' =
          [i \in DOMAIN compliance_rules |->
              IF compliance_rules[i].id = rule_id
              THEN [compliance_rules[i] EXCEPT !.is_active = FALSE]
              ELSE compliance_rules[i]]
    /\ runs' = runs + 1
    /\ UNCHANGED <<Tables, files, sessions, EvalVars, ParseVars>>

Next ==
    \/ \E p \in Procs, c \in RunCheckIds : RunStart(p, c)
    \/ \E p \in Procs : RunParse(p)
    \/ \E p \in Procs : RunEvaluate(p)
    \/ \E p \in Procs : RunCommit(p)
    \/ \E p \in Procs : RunRaise(p)
    \/ \E c \in LostCheckIds, f \in {FileMissing, FileCorrupt} : FileLost(c, f)
    \/ bulk_add_dishes(BulkNames)
    \/ \E n \in CreateNames : create_dish(n)
    \/ \E c \in MenuCheckIds : extract_dishes_from_check(c)
    \/ \E rule_id \in DeletedRuleIds : delete_rule(rule_id)

Spec == RunInit /\ [][Next]_vars

\* ------------------------------------------------------------------------
\* A fresh run followed by a run from storage: one rule, one parsed list
\* ------------------------------------------------------------------------

\* the check of the two runs
StoreCheckId == 1

\* the same list with the date of its i-th day left out
Undated(l, i) == [k \in DOMAIN l |-> IF k = i THEN [l[k] EXCEPT !.date = NoDate] ELSE l[k]]

\* the day lists parse_menu_file returns from an accepted answer of the
\* service (a non-empty list with a dish): the dated lists, and the same
\* with the date of one day left out
StoreLists ==
    LET dated == {l \in SmallLists : l # <<>> /\ ItemsCount(l) > 0}
    IN  dated \cup {Undated(l, i) : l \in dated, i \in 1..SmallDays}

StoreInit ==
    /\ rule \in MonthRules
    /\ days \in StoreLists
    /\ result = <<>>
    /\ menu_days = [c \in {StoreCheckId} |-> <<>>]
    /\ ParseIdle
    /\ menu_checks = <<>> /\ check_results = <<>> /\ dish_catalog = {}
    /\ compliance_rules = <<>> /\ files = <<>> /\ sessions = <<>> /\ runs = 0

\* the run that parsed the file: it stores the days and evaluates days_data
RunFresh ==
    /\ runs = 0
    /\ menu_days' = [menu_days EXCEPT ![StoreCheckId] = NewMenuDays(StoreCheckId, days)]
    /\ result' = _evaluate_rules(<<rule>>, days)
    /\ runs' = 1
    /\ UNCHANGED <<rule, days, ParseVars, menu_checks, check_results, dish_catalog,
                   compliance_rules, files, sessions>>

\* the next run of the same check, without a file path: days_data is
\* rebuilt from the stored rows
RunStored ==
    /\ runs = 1
    /\ result' = result \o _evaluate_rules(<<rule>>, StoredDays(menu_days[StoreCheckId]))
    /\ runs' = 2
    /\ UNCHANGED <<rule, days, ParseVars, Tables, compliance_rules, files, sessions>>

StoreNext == RunFresh \/ RunStored

SpecStore == StoreInit /\ [][StoreNext]_vars

\* ------------------------------------------------------------------------
\* Properties of rule evaluation (SpecEval)
\* ------------------------------------------------------------------------

Evaluated == result # <<>>

StandardKeys == {"expected_count", "actual_count", "comparison"}

\* C1: every result, of every rule type, parameter bag and day list (the
\* empty one included), carries expected_count, actual_count and comparison
\* in its evidence, and comparison is "above" exactly when actual_count >
\* expected_count, "under" exactly when it is smaller, "even" exactly when
\* they are equal; no other label occurs.
C1_EvidenceComparison ==
    \A i \in DOMAIN result :
        LET ev == result[i].evidence
        IN  /\ StandardKeys \subseteq DOMAIN ev
            /\ ev.comparison \in {"above", "under", "even"}
            /\ (ev.comparison = "above") <=> (ev.actual_count > ev.expected_count)
            /\ (ev.comparison = "under") <=> (ev.actual_count < ev.expected_count)
            /\ (ev.comparison = "even") <=> (ev.actual_count = ev.expected_count)

\* C1 witness: a legacy frequency rule, whose evidence is assembled apart
\* from its verdict, has produced the label "above"
C1_Witness ==
    /\ Evaluated
    /\ RuleType(rule) = "frequency"
    /\ result[1].evidence.comparison = "above"
    /\ result[1].evidence.actual_count > result[1].evidence.expected_count

\* C2: over zero days every rule of every type yields passed = false with
\* expected_count = 0 and actual_count = 0.
C2_ZeroDays ==
    (Evaluated /\ Len(days) = 0) =>
        \A i \in DOMAIN result :
            /\ result[i].passed = FALSE
            /\ result[i].evidence.expected_count = 0
            /\ result[i].evidence.actual_count = 0

\* C2 witness: a rule that would pass on an empty menu (an at-most rule) has
\* been evaluated over zero days
C2_Witness ==
    /\ Evaluated
    /\ Len(days) = 0
    /\ rule.rule_type = "item_frequency_weekly"
    /\ rule.name = NameItemFirst
    /\ result[1].finding_text = "No menu days found to check against this rule."

\* number of dish occurrences over all days whose name contains the word
SausageOccurrences == _count_item_occurrences(<<"naknikiyot">>, AllItemsFlat(days))

C9_Expected ==
    /\ result[1].evidence.item_searched = <<"naknikiyot">>
    /\ result[1].evidence.expected_count = 4
    /\ result[1].evidence.actual_count = 6
    /\ result[1].evidence.comparison = "above"
    /\ result[1].passed = FALSE

C9_Case(name) ==
    /\ Evaluated
    /\ rule.rule_type = "item_frequency_weekly"
    /\ rule.name = name
    /\ rule.parameters = NoParams
    /\ Len(days) = 20
    /\ SausageOccurrences = 6

\* C9 as stated: the weekly rule named "maximum once-per-week ITEM" (marker,
\* then the frequency phrase, then the item), without parameters, over 20
\* days holding the item 6 times, gives keyword = the item, expected 4,
\* actual 6, "above", failed.
C9_MaxFirstName == C9_Case(NameMaxFirst) => C9_Expected

\* C9 amended: the same holds for the name "ITEM maximum once-per-week",
\* the word order the interpreter's patterns read.
C9_ItemFirstName == C9_Case(NameItemFirst) => C9_Expected

C9_Witness == C9_Case(NameItemFirst) /\ C9_Expected

\* sum over the days of the per-day matching-item count of a count_min rule
MinVarietySum ==
    SeqSum([i \in DOMAIN days |->
        MinVarietyDayCount(_extract_daily_count(rule.name).keyword,
                           DailyCategory(days[i]))])

\* C10: a count_min rule whose name starts with the minimum marker and
\* carries the target N passes iff the average over all days of the per-day
\* matching-item count is at least N (sum >= N * days); when the average is
\* exactly N it passes with comparison "even".
C10_MinVarietyAverage ==
    (/\ Evaluated
     /\ Len(days) > 0
     /\ rule.rule_type = "count_min"
     /\ rule.name[1] = "minimum") =>
        LET N == _extract_daily_count(rule.name).count
        IN  /\ result[1].passed <=> (MinVarietySum >= N * Len(days))
            /\ (MinVarietySum = N * Len(days)) =>
                   (result[1].passed /\ result[1].evidence.comparison = "even")

\* the item keyword and the limit of a count_max rule
CountMaxKeyword ==
    IF rule.parameters.item # <<>> THEN rule.parameters.item
    ELSE _extract_daily_count(rule.name).keyword

\* number of dishes of the i-th day whose name contains the keyword
DishesWith(keyword, i) ==
    Cardinality({k \in DOMAIN DayItemPairs(days[i]) :
        Contains(Lower(keyword), Lower(DayItemPairs(days[i])[k][2]))})

\* the largest of these over the days
PeakWith(keyword) ==
    CHOOSE m \in {DishesWith(keyword, i) : i \in DOMAIN days} :
        \A i \in DOMAIN days : DishesWith(keyword, i) <= m

\* C11: for a count_max rule with limit N, actual_count is the peak
\* single-day count of the items whose name contains the keyword,
\* expected_count is N, and the rule passes iff the peak is at most N.
C11_CountMaxPeak ==
    (Evaluated /\ Len(days) > 0 /\ rule.rule_type = "count_max") =>
        LET N == _extract_daily_count(rule.name).count
        IN  /\ result[1].evidence.expected_count = N
            /\ result[1].evidence.actual_count = PeakWith(CountMaxKeyword)
            /\ result[1].passed <=> (PeakWith(CountMaxKeyword) <= N)

\* the days on which the required category, or else the required item, of
\* the rule is present
DaysPresent ==
    IF rule.parameters.required_category # <<>>
    THEN {i \in DOMAIN days :
            \E k \in DOMAIN days[i].items :
                Contains(Lower(rule.parameters.required_category),
                         Lower(days[i].items[k].cat))}
    ELSE {i \in DOMAIN days :
            \E k \in DOMAIN DayItemPairs(days[i]) :
                Contains(Lower(rule.parameters.required_item),
                         Lower(DayItemPairs(days[i])[k][2]))}

\* C12: for a legacy mandatory rule with a required_category or a
\* required_item parameter, expected_count is the number of days,
\* actual_count the number of days on which the category or item is present,
\* and the rule passes iff actual_count >= expected_count.
C12_MandatoryEveryDay ==
    (/\ Evaluated /\ Len(days) > 0 /\ RuleType(rule) = "mandatory"
     /\ \/ rule.parameters.required_category # <<>>
        \/ rule.parameters.required_item # <<>>) =>
        /\ result[1].evidence.expected_count = Len(days)
        /\ result[1].evidence.actual_count = Cardinality(DaysPresent)
        /\ result[1].passed <=>
              (result[1].evidence.actual_count >= result[1].evidence.expected_count)

\* number of dish occurrences over all days whose name contains the keyword
Occurrences(keyword) ==
    SeqSum([i \in DOMAIN days |-> DishesWith(keyword, i)])

\* round(weeks_in_month * per_week) with weeks_in_month = max(d / 5, 1)
ExpectedPerWeek(per_week) ==
    RoundDiv(per_week * (IF Len(days) > 5 THEN Len(days) ELSE 5), 5)

\* C13: for a legacy frequency rule with an item and exactly one of
\* min_per_week / max_per_week, over 1..31 days, expected_count is
\* round(weeks_in_month * parameter), actual_count the occurrence count of
\* the item, and the rule passes iff actual >= expected (min parameter) or
\* actual <= expected (max parameter).
C13_LegacyFrequency ==
    (/\ Evaluated /\ Len(days) \in 1..31 /\ rule.rule_type = "frequency"
     /\ rule.parameters.item # <<>>
     /\ (rule.parameters.min_per_week = None) # (rule.parameters.max_per_week = None)) =>
        LET ev == result[1].evidence
            is_min == rule.parameters.min_per_week # None
        IN  /\ ev.expected_count =
                  ExpectedPerWeek(IF is_min THEN rule.parameters.min_per_week
                                  ELSE rule.parameters.max_per_week)
            /\ ev.actual_count = Occurrences(rule.parameters.item)
            /\ result[1].passed <=>
                  IF is_min THEN ev.actual_count >= ev.expected_count
                  ELSE ev.actual_count <= ev.expected_count

\* C14: for an item_frequency_weekly rule over d >= 1 days with per-week
\* target f, the weeks-in-month factor is max(d / 5, 1), never zero,
\* expected_count is round(f * factor), actual_count the number of dish
\* occurrences over all days whose name contains the keyword, and passed
\* holds iff actual >= expected for an at-least rule and iff actual <=
\* expected for an at-most rule.
C14_WeeklyFrequency ==
    (Evaluated /\ Len(days) >= 1 /\ rule.rule_type = "item_frequency_weekly") =>
        LET ev == result[1].evidence
        IN  /\ ev.expected_count = ExpectedPerWeek(ev.weekly_freq)
            /\ ev.weekly_freq > 0 => ev.expected_count > 0
            /\ ev.actual_count = Occurrences(ev.item_searched)
            /\ ev.is_max_rule <=> (\/ Truthy(rule.parameters.max_per_week)
                                   \/ /\ ~Truthy(rule.parameters.min_per_week)
                                      /\ "maximum" \in Range(rule.name))
            /\ result[1].passed <=>
                  IF ev.is_max_rule THEN ev.actual_count <= ev.expected_count
                  ELSE ev.actual_count >= ev.expected_count

\* three days count as one week: twice a week is expected twice
C14_Witness ==
    /\ Evaluated
    /\ rule.rule_type = "item_frequency_weekly"
    /\ rule.name = NameTimes
    /\ rule.parameters = NoParams
    /\ Len(days) = 3
    /\ result[1].evidence.expected_count = 2
    /\ result[1].evidence.actual_count = 3
    /\ result[1].passed

\* the dish names of the i-th day, lowercased, one per listed dish
NamesOfDay(i) ==
    FlattenSeq([k \in DOMAIN days[i].items |->
        IF days[i].items[k].list
        THEN [j \in DOMAIN days[i].items[k].dishes |->
                 Lower(days[i].items[k].dishes[j])]
        ELSE <<>>])

\* the dishes of the i-th day beyond the first of each name
SpareDishes(i) == Len(NamesOfDay(i)) - Cardinality(Range(NamesOfDay(i)))

\* C22: for a no_repeat_daily rule actual_count is the sum over the days of
\* (occurrences - 1) of every dish name that occurs more than once within
\* the day, names compared without case and across the categories of the
\* day; the same dish on two different days adds nothing; expected_count is
\* 0 and the rule passes iff the sum is 0.
C22_NoRepeatDaily ==
    (Evaluated /\ Len(days) > 0 /\ rule.rule_type = "no_repeat_daily") =>
        LET repeats == SeqSum([i \in DOMAIN days |-> SpareDishes(i)])
        IN  /\ result[1].evidence.actual_count = repeats
            /\ result[1].evidence.expected_count = 0
            /\ result[1].passed <=> (repeats = 0)

\* a day that holds one dish twice, under two categories and in two cases,
\* and a dish that is on both days
C22_Witness ==
    /\ Evaluated
    /\ rule.rule_type = "no_repeat_daily"
    /\ Len(days) = 2
    /\ days[1].items = ItemsBoth
    /\ days[2].items = ItemsSausage
    /\ result[1].evidence.actual_count = 1
    /\ ~result[1].passed

\* the dish names present on the i-th day and on the day after it
OnBothDays(i) == Range(NamesOfDay(i)) \cap Range(NamesOfDay(i + 1))

\* C23: for a no_consecutive rule actual_count is the sum, over the pairs of
\* adjacent days of the day list, of the number of distinct dish names
\* present on both days, whatever the categories or repetitions of the dish
\* on either day; expected_count is 0 and the rule passes iff the sum is 0.
C23_NoConsecutive ==
    (Evaluated /\ Len(days) > 0 /\ rule.rule_type = "no_consecutive") =>
        LET overlaps == SetSum(1..(Len(days) - 1),
                               [i \in 1..(Len(days) - 1) |->
                                   Cardinality(OnBothDays(i))])
        IN  /\ result[1].evidence.actual_count = overlaps
            /\ result[1].evidence.expected_count = 0
            /\ result[1].passed <=> (overlaps = 0)

\* a dish listed once on day 1, and on day 2 under two categories
C23_Witness ==
    /\ Evaluated
    /\ rule.rule_type = "no_consecutive"
    /\ Len(days) = 2
    /\ days[1].items = ItemsSalad
    /\ days[2].items = ItemsBoth
    /\ result[1].evidence.actual_count = 1
    /\ ~result[1].passed

\* the rule is evaluated as a daily presence rule
IsPresenceRule ==
    \/ RuleType(rule) = "item_present"
    \/ /\ RuleType(rule) = "count_min"
       /\ ~(rule.name # <<>> /\ rule.name[1] = "minimum")

\* the days on which a dish name contains the keyword
DaysWith(keyword) ==
    {i \in DOMAIN days : \E n \in Range(NamesOfDay(i)) : Contains(Lower(keyword), n)}

\* C24: for an item_present rule, and for a count_min rule whose name does
\* not start with the minimum marker, expected_count is the number of days,
\* actual_count the number of days on which a dish name contains the item
\* keyword, the rule passes iff the keyword is present on every day,
\* found_on_days lists exactly the actual_count days with a match and
\* missing_on_days lists only days without one.
C24_DailyPresence ==
    (Evaluated /\ Len(days) > 0 /\ IsPresenceRule) =>
        LET ev == result[1].evidence
            present == DaysWith(ev.item_searched)
        IN  /\ ev.expected_count = Len(days)
            /\ ev.actual_count = Cardinality(present)
            /\ result[1].passed <=> (present = DOMAIN days)
            /\ Len(ev.found_on_days) = ev.actual_count
            /\ Range(ev.found_on_days) = {days[i].date : i \in present}
            /\ Range(ev.missing_on_days)
                   \subseteq {days[i].date : i \in DOMAIN days \ present}

\* a count_min rule without the minimum marker whose item is on some days
\* of the month and missing on more than ten
C24_Witness ==
    /\ Evaluated
    /\ rule.rule_type = "count_min"
    /\ rule.name = NameDaily
    /\ Len(days) = MonthDays
    /\ result[1].evidence.item_searched = <<"naknikiyot">>
    /\ result[1].evidence.actual_count = 3
    /\ Len(result[1].evidence.missing_on_days) = 10
    /\ ~result[1].passed

\* the listed dishes of the i-th day whose own name, or the category they
\* are listed under, contains the keyword
OwnMatches(keyword, i) ==
    SeqSum([k \in DOMAIN days[i].items |->
        IF ~days[i].items[k].list THEN 0
        ELSE Cardinality({j \in DOMAIN days[i].items[k].dishes :
                \/ Contains(Lower(keyword), Lower(days[i].items[k].dishes[j]))
                \/ Contains(Lower(keyword), Lower(days[i].items[k].cat))})])

\* C26: in the minimum-variety evaluation of count_min an item adds to the
\* count of its day only if its own name, or the category it is listed
\* under, contains the category keyword, whatever other categories the day
\* has: the daily average and the days that meet the minimum are those of
\* these counts.
C26_OwnNameOrCategory ==
    (/\ Evaluated
     /\ Len(days) > 0
     /\ rule.rule_type = "count_min"
     /\ rule.name[1] = "minimum") =>
        LET ev == result[1].evidence
            counts == [i \in DOMAIN days |-> OwnMatches(ev.category_keyword, i)]
        IN  /\ ev.avg_daily = RoundTenths(SeqSum(counts), Len(days))
            /\ Range(ev.found_on_days)
                   = {days[i].date : i \in {k \in DOMAIN days :
                                               counts[k] >= ev.min_required}}

\* C29: over at least one day, a result whose comparison is "even" (the
\* actual count equals the expected one) is a result that passed
C29_EvenPasses ==
    (result # <<>> /\ Len(days) >= 1 /\ result[1].evidence.comparison = "even")
        => result[1].passed

\* ------------------------------------------------------------------------
\* Properties of file parsing (SpecParse)
\* ------------------------------------------------------------------------

Parsed == parsed # <<>>

\* a day of the synthetic weekday list: no items
IsPlaceholderDay(day) == day.items = <<>>

\* nothing can be taken from the file and the service gives nothing usable
TotalFailure ==
    /\ extract_all_dishes_from_file(file) = <<>>
    /\ ~HasText(_read_file_raw(file)) \/ ~AIAccepted(ai)

\* C5: parse_menu_file never raises, whatever the file, the answer of the
\* service, the month label and the year; it returns a list of days, and on
\* total failure the list is the synthetic weekday entries with empty item
\* maps.
C5_NeverRaises ==
    Parsed =>
        /\ ~parsed[1].raised
        /\ TotalFailure =>
              /\ parsed[1].days # <<>>
              /\ \A i \in DOMAIN parsed[1].days : IsPlaceholderDay(parsed[1].days[i])

\* the dishes an answer of the service carries, over all days and categories
AnswerDishes(a) ==
    UNION {UNION {IF d.items[k].list THEN Range(d.items[k].dishes) ELSE {}
                  : k \in DOMAIN d.items} : d \in Range(a.days)}

\* the answer is the result
AnswerReturned == Parsed /\ ~parsed[1].raised /\ ai.kind = "list"
                  /\ parsed[1].days = ai.days

\* the result of the tiers below the service
Fallbacks == {_build_days_from_direct_extraction(file, month, year),
              _generate_placeholder_days(month, year)}

\* C6: the answer of the service is the result only if it is a non-empty list
\* with at least one item over all days and categories; an empty list, a list
\* with no items, a value that is no list and a raising call all leave the
\* result to direct extraction or placeholder generation.
C6_AnswerNeedsItems ==
    Parsed =>
        /\ AnswerReturned =>
              ai.days # <<>> /\ ai.wellformed /\ AnswerDishes(ai) # {}
        /\ (ai.kind # "list" \/ ai.days = <<>> \/ ~ai.wellformed
               \/ AnswerDishes(ai) = {})
              => parsed[1] \in Fallbacks

\* the file has text, the service answers with a list of days without items
C6_Witness ==
    /\ Parsed
    /\ HasText(_read_file_raw(file))
    /\ ai = AINoItems
    /\ ~parsed[1].raised
    /\ parsed[1].days # ai.days

\* ------------------------------------------------------------------------
\* Properties of the runs (Spec)
\* ------------------------------------------------------------------------

\* the file of the check cannot be read: it is gone, or it does not open
Unreadable(f) == ~f.exists \/ ~f.readable

\* process p takes the parse step of its run
ParseStep(p) == sessions[p].pc = "loaded" /\ sessions'[p].pc = "parsed"

\* C3: a run for a check that has stored MenuDay rows and whose file can no
\* longer be read neither deletes nor replaces the stored rows, and its rules
\* are evaluated against the stored days.
C3_StoredDaysReused ==
    [][\A p \in DOMAIN sessions :
          (/\ ParseStep(p)
           /\ sessions[p].check.file_path
           /\ menu_days[sessions[p].check_id] # <<>>
           /\ Unreadable(files[sessions[p].check_id]))
          => /\ ~sessions'[p].delete_days
             /\ sessions'[p].add_days = <<>>
             /\ sessions'[p].days_data = StoredDays(menu_days[sessions[p].check_id])]_vars

\* C4: after any sequence of completed runs, the CheckResult rows of a check
\* are the findings of its latest run, so passed_rules + critical_findings +
\* warnings of the check is the number of its CheckResult rows.
C4_ResultsOfLastRun ==
    \A c \in DOMAIN menu_checks :
        menu_checks[c].totals.passed_rules
            + menu_checks[c].totals.critical_findings
            + menu_checks[c].totals.warnings
        = Len(check_results[c])

\* C7: when the write of the new dish names fails (a uniqueness violation on
\* dish_name), the run still returns and its findings and totals are
\* committed.
C7_CatalogFailureAbsorbed ==
    \A p \in DOMAIN sessions :
        sessions[p].error = "integrity" =>
            /\ sessions[p].outcome = "returned"
            /\ Range(sessions[p].add_results)
                   \subseteq Range(check_results[sessions[p].check_id])
            /\ menu_checks[sessions[p].check_id].totals = sessions[p].totals

\* C8: a step of a run that does not return changes none of the stored
\* tables, whether the run raises at that step or later; the step that
\* returns applies the staged day rows, findings, totals and catalog rows
\* together.
C8_AllOrNothing ==
    [][\A p \in DOMAIN sessions :
          sessions'[p] # sessions[p] =>
              IF sessions'[p].outcome = "returned"
              THEN /\ menu_days' = CommittedDays(sessions[p])
                   /\ check_results' = CommittedResults(sessions[p])
                   /\ menu_checks' = CommittedChecks(sessions[p])
                   /\ dish_catalog' = CommittedCatalog(sessions[p])
              ELSE UNCHANGED Tables]_vars

\* a run that raised after staging the replacement of the days, findings
\* and dishes, and next to it a run that returned
C8_Witness ==
    /\ \E p \in DOMAIN sessions :
          /\ sessions[p].outcome = "raised"
          /\ sessions[p].delete_days
          /\ sessions[p].add_results # <<>>
          /\ sessions[p].add_dishes # <<>>
    /\ \E q \in DOMAIN sessions : sessions[q].outcome = "returned"

\* ------------------------------------------------------------------------
\* Properties of the column structure of a workbook (SpecParse)
\* ------------------------------------------------------------------------

\* the rows among the first five that carry a day label
LabelRows ==
    {r \in 1..(IF Len(file.rows) < 5 THEN Len(file.rows) ELSE 5) :
        \E c \in DOMAIN file.rows[r] : IsDayLabel(Strip(file.rows[r][c]))}

\* the header row, and its day columns
HeaderRow == MinOf(LabelRows)

DayColumns == {c \in DOMAIN file.rows[HeaderRow] :
                  IsDayLabel(Strip(file.rows[HeaderRow][c]))}

\* the dish cells of a column, below the header
DishCells(c) ==
    {CellAt(file.rows[r], c) : r \in {q \in DOMAIN file.rows : q > HeaderRow}}
    \cap {v \in Range(AllCells(file)) : _is_dish_name(v)}

\* the dishes of a structured day
DishesOfDay(day) == UNION {Range(day.items[k].dishes) : k \in DOMAIN day.items}

\* the parse went down to the direct extraction of a workbook with a header
ColumnsExtracted ==
    /\ Parsed /\ ~parsed[1].raised
    /\ file.ext = "xlsx" /\ file.exists /\ file.readable
    /\ LabelRows # {}
    /\ ~AIAccepted(ai)
    /\ _extract_days_from_excel_columns(file, month, year) # <<>>
    /\ parsed[1].days = _extract_days_from_excel_columns(file, month, year)

\* C15: for a workbook whose header row carries day labels, every returned
\* day holds exactly the dish cells of one day column, under that column's
\* date: no dish of another column, no header label among the dishes, and
\* no two day columns under the same date.
C15_ColumnsToDays ==
    ColumnsExtracted =>
        LET ds == parsed[1].days
        IN  /\ \A i \in DOMAIN ds :
                  /\ \E c \in DayColumns : DishesOfDay(ds[i]) = DishCells(c)
                  /\ \A c \in DayColumns :
                        Strip(file.rows[HeaderRow][c]) \notin DishesOfDay(ds[i])
            /\ \A i, j \in DOMAIN ds : i # j => ds[i].date # ds[j].date

\* ------------------------------------------------------------------------
\* Properties of a file without text (SpecParse)
\* ------------------------------------------------------------------------

\* no text can be read from the file
NoText == ~HasText(_read_file_raw(file))

\* the label and the year name a month of the calendar that has a next one
TargetMonth ==
    /\ PartVal(month[Len(month)]) \in 1..12
    /\ year \in 1..9999
    /\ ~(PartVal(month[Len(month)]) = 12 /\ year = 9999)

\* the dates of the target month that fall on the five working weekdays
WorkingDates ==
    LET m == PartVal(month[Len(month)])
    IN  {Ordinal(year, m, d) : d \in {x \in 1..DaysInMonth(year, m) :
                                        Weekday(Ordinal(year, m, x)) \in 0..4}}

\* the Mondays of the target month whose week ends within it
FullWeeks ==
    LET m == PartVal(month[Len(month)])
    IN  {Ordinal(year, m, d) : d \in {x \in 1..(DaysInMonth(year, m) - 6) :
                                        Weekday(Ordinal(year, m, x)) = 0}}

FlatFallback ==
    /\ Parsed
    /\ ~NoText
    /\ ~AIAccepted(ai)
    /\ file.ext # "xlsx" \/ _extract_days_from_excel_columns(file, month, year) = <<>>

\* the number of listings of a dish name over the parsed days
Listings(dish) ==
    SeqSum([i \in DOMAIN parsed[1].days |->
        SeqSum([k \in DOMAIN parsed[1].days[i].items |->
            Cardinality({j \in DOMAIN parsed[1].days[i].items[k].dishes :
                            parsed[1].days[i].items[k].dishes[j] = dish})])])

\* C27: when the answer of the service is rejected and no day-column
\* structure is found, parse_menu_file returns the placeholder weekdays of
\* the target month; when whole-file extraction yields dishes, every day
\* holds the identical complete dish list under the one default category,
\* so every dish is listed once per placeholder day; when it yields none,
\* every day has an empty item map.
C27_FlatListEveryDay ==
    (FlatFallback /\ TargetMonth) =>
        LET ds == parsed[1].days
            all_dishes == extract_all_dishes_from_file(file)
        IN  /\ ~parsed[1].raised
            /\ {ds[i].date : i \in DOMAIN ds} = WorkingDates
            /\ Len(ds) = Cardinality(WorkingDates)
            /\ all_dishes # <<>> =>
                  /\ \A i \in DOMAIN ds :
                        /\ Len(ds[i].items) = 1
                        /\ ds[i].items[1].cat = MainCategory
                        /\ ds[i].items[1].dishes = all_dishes
                  /\ \A dish \in Range(all_dishes) : Listings(dish) = Len(ds)
            /\ all_dishes = <<>> => \A i \in DOMAIN ds : ds[i].items = <<>>

\* a workbook with dishes and no header row, February 2026: twenty days
\* that each list both dishes
C27_Witness ==
    /\ FlatFallback
    /\ file = FileFlat
    /\ ai = AINoItems
    /\ month = <<"2026", "02">>
    /\ year = 2026
    /\ Len(parsed[1].days) = 20
    /\ Len(extract_all_dishes_from_file(file)) = 2
    /\ \A dish \in Range(extract_all_dishes_from_file(file)) : Listings(dish) = 20

\* the dates of the target month that fall on a Sunday
Sundays ==
    LET m == PartVal(month[Len(month)])
    IN  {Ordinal(year, m, d) : d \in {x \in 1..DaysInMonth(year, m) :
                                        Weekday(Ordinal(year, m, x)) = 6}}

\* C30: the placeholder days of a month fall on Sunday to Thursday only: none
\* is a Friday or a Saturday, and every Sunday of the month has one
C30_SundayToThursday ==
    (Parsed /\ NoText /\ TargetMonth) =>
        LET ds == parsed[1].days
        IN  /\ ~parsed[1].raised
            /\ \A i \in DOMAIN ds : Weekday(ds[i].date) \notin {4, 5}
            /\ Sundays \subseteq {ds[i].date : i \in DOMAIN ds}

\* ------------------------------------------------------------------------
\* Properties of the totals and of the catalog (Spec)
\* ------------------------------------------------------------------------

\* the sessions whose run returned
ReturnedRuns == {p \in DOMAIN sessions : sessions[p].outcome = "returned"}

\* C17: after every completed run, critical_findings + warnings +
\* passed_rules = rules_checked = dishes_above + dishes_under + dishes_even
\* and total_findings = critical_findings + warnings; a failing result
\* counts as critical iff the priority of its rule is <= 1 and as a warning
\* otherwise, a passing result counts as passed only.
C17_TotalsPartition ==
    \A p \in ReturnedRuns :
        LET s == sessions[p]
            t == s.totals
            rules_checked == Len(s.rules)
            failing == {i \in DOMAIN s.add_results : ~s.add_results[i].passed}
        IN  /\ Len(s.add_results) = rules_checked
            /\ t.critical_findings + t.warnings + t.passed_rules = rules_checked
            /\ t.dishes_above + t.dishes_under + t.dishes_even = rules_checked
            /\ t.total_findings = t.critical_findings + t.warnings
            /\ t.critical_findings =
                  Cardinality({i \in failing : s.rules[i].priority <= 1})
            /\ t.warnings = Cardinality({i \in failing : s.rules[i].priority > 1})
            /\ t.passed_rules = rules_checked - Cardinality(failing)
            /\ menu_checks[s.check_id].totals.total_findings
                  = menu_checks[s.check_id].totals.critical_findings
                    + menu_checks[s.check_id].totals.warnings

\* a run that returned with a failing critical rule and a failing warning
\* rule, and one with a passing rule
C17_Witness ==
    /\ \E p \in ReturnedRuns : /\ sessions[p].totals.critical_findings = 1
                            /\ sessions[p].totals.warnings >= 1
    /\ \E p \in ReturnedRuns : sessions[p].totals.passed_rules >= 1

\* the keyword a stored finding carries: the item searched, or else the
\* category keyword
KeywordOf(row) ==
    IF "item_searched" \in DOMAIN row.evidence /\ row.evidence.item_searched # <<>>
    THEN row.evidence.item_searched
    ELSE IF "category_keyword" \in DOMAIN row.evidence
    THEN row.evidence.category_keyword
    ELSE <<>>

\* the sessions that have staged their catalog rows
Staged == {p \in DOMAIN sessions : sessions[p].has_totals}

EntriesNamed(n) == {d \in dish_catalog : d.dish_name = n}

\* C19: in every reachable state, after any interleaving of compliance runs,
\* bulk-adds, single dish creations and extract-from-check operations, no
\* two catalog entries share a dish_name, and no step removes or changes an
\* entry the catalog already holds.
C19_CatalogUniqueAppendOnly ==
    /\ [](\A n \in CatalogNames : Cardinality(EntriesNamed(n)) = 1)
    /\ [][dish_catalog \subseteq dish_catalog']_vars

\* a run whose flush was refused because another writer of another origin
\* had committed the name the run had staged
C19_Witness ==
    \E p \in DOMAIN sessions :
        /\ sessions[p].error = "integrity"
        /\ \E i \in DOMAIN sessions[p].add_dishes :
              \E d \in dish_catalog :
                  /\ d.dish_name = sessions[p].add_dishes[i].dish_name
                  /\ d # sessions[p].add_dishes[i]
        /\ \A d \in dish_catalog : Cardinality(EntriesNamed(d.dish_name)) = 1


\* a session whose run on a stored check is over without a failure of the
\* storage layer
RunOver(p) ==
    /\ sessions[p].pc = "done"
    /\ sessions[p].check_id \in DOMAIN menu_checks
    /\ sessions[p].error # "storage"

\* the check of a session holds what the run of the session staged
EndsAsAlone(p) ==
    LET s == sessions[p]
    IN  /\ s.outcome = "returned"
        /\ check_results[s.check_id] = s.add_results
        /\ menu_checks[s.check_id].totals = s.totals
        /\ s.delete_days => menu_days[s.check_id] = s.add_days

\* C20: two concurrent runs on different checks both complete, and for
\* every interleaving, those in which both discover the same new dish name
\* included, each check ends with the stored days, results and totals its
\* run would leave alone (no other writer of the catalog takes part).
C20_DifferentChecksIndependent ==
    \A p, q \in DOMAIN sessions :
        (/\ p # q
         /\ RunOver(p) /\ RunOver(q)
         /\ sessions[p].check_id # sessions[q].check_id
         /\ \A d \in dish_catalog : d.source_check_id # None)
        => EndsAsAlone(p) /\ EndsAsAlone(q)


\* ------------------------------------------------------------------------
\* Properties of the calls of the text-generation service (SpecParse)
\* ------------------------------------------------------------------------

StartStep(p) == sessions[p].pc \in {"idle", "done"} /\ sessions'[p].pc = "loaded"

\* process p takes the evaluation step of its run
EvaluateStep(p) == sessions[p].pc = "parsed" /\ sessions'[p].pc = "evaluated"

\* the ids of the rules whose active flag is set
ActiveIds == {compliance_rules[i].id :
                i \in {k \in DOMAIN compliance_rules : compliance_rules[k].is_active}}

\* C25: a run evaluates exactly the rules whose active flag is set when it
\* starts: rules_checked is the number of active rules and each yields
\* exactly one result, so a rule deactivated through delete_rule yields no
\* result in any later run; the results stored by earlier runs keep the
\* rule name and category copied when they were created.
C25_ActiveRulesOnly ==
    [][/\ \A p \in DOMAIN sessions :
            /\ StartStep(p) =>
                  /\ Len(sessions'[p].rules) = Cardinality(ActiveIds)
                  /\ {sessions'[p].rules[i].id : i \in DOMAIN sessions'[p].rules}
                         = ActiveIds
            /\ EvaluateStep(p) =>
                  /\ Len(sessions'[p].add_results) = Len(sessions[p].rules)
                  /\ \A i \in DOMAIN sessions[p].rules :
                        /\ sessions'[p].add_results[i].rule_name
                               = sessions[p].rules[i].name
                        /\ sessions'[p].add_results[i].rule_category
                               = sessions[p].rules[i].category
       /\ \A c \in DOMAIN check_results :
            /\ Len(check_results'[c]) >= Len(check_results[c])
            /\ SubSeq(check_results'[c], 1, Len(check_results[c])) = check_results[c]
      ]_vars

\* a run that started after delete_rule and returned without a result of
\* the deactivated rule
C25_Witness ==
    \E p \in ReturnedRuns :
        /\ \E i \in DOMAIN compliance_rules :
              /\ compliance_rules[i].id \in DeletedRuleIds
              /\ ~compliance_rules[i].is_active
              /\ \A j \in DOMAIN sessions[p].add_results :
                    sessions[p].add_results[j].rule_name # compliance_rules[i].name
        /\ Len(sessions[p].rules) = 2
        /\ Len(check_results[sessions[p].check_id]) = 2

\* ------------------------------------------------------------------------
\* Properties of the storage round trip (SpecStore)
\* ------------------------------------------------------------------------

\* what a finding records of the outcome of its rule
Outcome(f) ==
    <<f.passed, f.evidence.expected_count, f.evidence.actual_count,
      f.evidence.comparison>>

\* C28: the run from the stored rows gives the rule the same passed,
\* expected_count, actual_count and comparison as the fresh run that stored
\* them, and the same days_parsed: the stored days are the evaluated days
C28_StorageRoundTrip ==
    runs = 2 =>
        /\ Outcome(result[2]) = Outcome(result[1])
        /\ Len(StoredDays(menu_days[StoreCheckId])) = Len(days)

====
